---- MODULE Spec2Model ----
(***************************************************************************)
(* A model of the cleansh workspace: the remediation orchestrator with its *)
(* sliding-window governor (cleansh-core/src/remediation), and the         *)
(* sanitization engines with their ANSI index mapper                       *)
(* (cleansh-core/src/engines).                                             *)
(***************************************************************************)
EXTENDS Integers, Sequences, FiniteSets, TLC

(***************************************************************************)
(* Bounds of the model.                                                    *)
(***************************************************************************)
\* The clock runs from 0 to MaxTime (one unit is any fixed span of time).
MaxTime == 3
\* RemediationGovernor.window, in clock units.
Window == 2
\* RemediationGovernor.max_actions.
MaxActions == 1
\* Matches sent into the remediation channel over a run.
MaxSends == 2

\* Longest regex-engine input, in characters.
MaxLen == 4
\* EngineConfig.entropy.window_size.
EntWindow == 6
\* An entropy-engine input is made of at most MaxPieces pieces.
MaxPieces == 3

\* The vault: fingerprints have one of MaxHashes hashes and each publisher
\* calls publish at most MaxPublishes times.
MaxHashes == 2
MaxPublishes == 1

\* The compiler is given at most MaxRules rules.
MaxRules == 2

\* Line-buffered mode: at most MaxInput bytes are written to stdin.
MaxInput == 4

\* A governor on its own answers at most MaxCalls calls.
MaxCalls == 5

\* The TUI: stdin brings at most MaxTuiLines lines and the operator swaps the
\* engine at most MaxSwaps times.
MaxTuiLines == 2
MaxSwaps == 1

\* sanitize applied twice: texts of at most MaxTwiceLen characters.
MaxTwiceLen == 5

\* EntropyEngine::scan alone: window_size is 1..MaxWindow, the text has at
\* most MaxScanLen bytes and the run is cut off after MaxRaw raw matches.
MaxWindow == 3
MaxScanLen == 4
MaxRaw == 3

\* cleansh-entropy scan: matches shorter than 6 bytes are discarded.
MinCore == 6
\* Capacity of the orchestrator's channel: mpsc::channel(1).
ChanCap == 1

(***************************************************************************)
(* ConfidenceLevel: a total order Low < Medium < High < Critical           *)
(* (derive(PartialOrd) on the enum orders the variants as declared).       *)
(***************************************************************************)
Low == 0
Medium == 1
High == 2
Critical == 3
Levels == {Low, Medium, High, Critical}

VARIABLES
    \* ---- remediation side ----
    now,            \* tokio Instant::now(), monotone
    history,        \* RemediationGovernor.history (VecDeque<Instant>)
    grants,         \* ghost: the instants at which allow_action returned true
    queue,          \* the mpsc channel feeding SelfHealingEngine::listen
    sent,           \* number of matches sent so far
    pc,             \* where the orchestrator task is suspended
    redaction,      \* the match being processed
    pi,             \* index of the provider being processed
    cur,            \* ghost: what happened to the latest (match, provider) pair
    vaultStore,     \* fingerprints the vault holds
    interactive,    \* SelfHealingEngine.interactive
    hasVault,       \* SelfHealingEngine.vault is Some
    mockThreshold,  \* auto_remediation_threshold of the second provider
    closed,         \* every Sender of the channel has been dropped
    closedWith,     \* how many matches were queued when that happened
    \* ---- sanitization side ----
    engine,         \* which SanitizationEngine runs: "regex" or "entropy"
    input,          \* the input of sanitize and analyze_for_stats
    confidence_threshold, \* entropy engine: the confidence a window needs
    remediation_tx, \* the engine's remediation_tx and the channel behind it
    sanRun,         \* what sanitize returned and did
    anaRun,         \* what analyze_for_stats returned and did
    \* ---- one call of the low-level EntropyEngine::scan ----
    scanText,       \* text
    window_size,    \* self.window_size
    scanThreshold,  \* self.confidence_threshold
    scan_i,         \* i
    raw_matches,    \* raw_matches
    scanPc,         \* "start", "loop" or "done"
    scanResult,     \* what scan returned
    \* ---- the S3 vault and two publishers ----
    s3Object,       \* the fingerprint list stored under the key
    store0,         \* the list at the start
    pubPc,          \* per publisher: "idle", "fetch" or "put"
    pubFp,          \* per publisher: the hash of the fingerprint it publishes
    pubAll,         \* per publisher: `all`, its copy of the list
    pubSeen,        \* per publisher: the list as it was when fetch_all read it
    pubDone,        \* per publisher: how many publish calls have returned
    bothRead,       \* both publishers held a copy with their write still to come
    anyFailure,     \* a request to S3 has failed
    \* ---- the rule compiler ----
    rules_to_compile,   \* the rules handed to compile_rules
    compiled,           \* what compile_rules returned
    compilePc,          \* "idle", "call" or "done"
    \* ---- line-buffered mode ----
    stdinBytes,     \* the bytes written to stdin and not yet read
    stdinClosed,    \* the writer has closed stdin
    stdinFed,       \* how many bytes were written to stdin
    line,           \* the line buffer of the loop
    linesRead,      \* the lines read_line has returned, in order
    written,        \* the bytes written to the output
    linePc,         \* "off", "read", "sanitize" or "done"
    \* ---- a governor on its own ----
    govNow,         \* Instant::now()
    govHistory,     \* RemediationGovernor::history
    govCalls,       \* the allow_action calls so far: when, what was left of the
                    \* history after the expired stamps were dropped, the answer
    \* ---- the TUI ----
    stdinLines,         \* the lines the stdin reader still has to send
    rx_line,            \* the line channel
    rx_match,           \* the match channel
    raw_input_buffer,   \* App::raw_input_buffer
    log_lines,          \* App::log_lines: which line, sanitized by which engine
    matches,            \* App::matches: secret and status
    match_list_state,   \* the selected index of the match list, -1 for None
    current_engine,     \* App::current_engine
    show_engine_menu,   \* App::show_engine_menu
    engine_list_state,  \* the selected index of the engine menu
    replays,            \* per replay task: the history lines it still has to send
    should_quit,        \* App::should_quit
    \* ---- sanitize applied to its own output ----
    twiceInput,     \* the text S
    twiceFirst,     \* sanitize(S)
    twiceSecond,    \* sanitize(sanitize(S))
    twicePc,        \* "off", "first", "second" or "done"
    \* ---- the cache of compiled rules ----
    COMPILED_RULES_CACHE,   \* the HashMap: entries of a key and an Arc
    cacheReaders,   \* the callers holding the RwLock's read guard
    cacheWriter,    \* the caller holding the write guard, 0 for none
    callPc,         \* where each caller of get_or_compile_rules is
    callConfig,     \* the rules of its config
    callFound,      \* whether cache.get(&cache_key) gave Some
    callCompiled,   \* the Arc it made of its compiled rules, 0 for none
    callRet,        \* the Arc it returns, 0 for none, -1 for Err
    arcs,           \* how many Arcs were allocated
    callsStarted,   \* how many calls were made
    \* ---- scan_token_against_context ----
    baseLen,            \* context.len()
    baseWindow,         \* token.len(), the window_size of the scan
    base_i,             \* where the window starts in the context
    window_chunk_size,  \* AnomalyScannerConfig::window_chunk_size
    context_samples,    \* the chunks whose entropies are in context_entropies
    basePc              \* "off", "window" or "scored"

remVars == <<now, history, grants, queue, sent, pc, redaction, pi, cur,
             vaultStore, interactive, hasVault, mockThreshold, closed, closedWith>>

sanVars == <<engine, input, confidence_threshold, remediation_tx, sanRun, anaRun>>

scanVars == <<scanText, window_size, scanThreshold, scan_i, raw_matches, scanPc,
              scanResult>>

vaultVars == <<s3Object, store0, pubPc, pubFp, pubAll, pubSeen, pubDone, bothRead,
               anyFailure>>

compileVars == <<rules_to_compile, compiled, compilePc>>

lineVars == <<stdinBytes, stdinClosed, stdinFed, line, linesRead, written, linePc>>

govVars == <<govNow, govHistory, govCalls>>

twiceVars == <<twiceInput, twiceFirst, twiceSecond, twicePc>>

cacheVars == <<COMPILED_RULES_CACHE, cacheReaders, cacheWriter, callPc, callConfig,
               callFound, callCompiled, callRet, arcs, callsStarted>>

baseVars == <<baseLen, baseWindow, base_i, window_chunk_size, context_samples, basePc>>

tuiVars == <<stdinLines, rx_line, rx_match, raw_input_buffer, log_lines, matches,
             match_list_state, current_engine, show_engine_menu, engine_list_state,
             replays, should_quit>>

\* Everything but the orchestrator, but the engines, but the scan, but the
\* vault, but the compiler.
nonRemVars == <<sanVars, scanVars, vaultVars, compileVars, lineVars, govVars, tuiVars, twiceVars,
     cacheVars, baseVars>>
nonSanVars == <<remVars, scanVars, vaultVars, compileVars, lineVars, govVars, tuiVars, twiceVars,
     cacheVars, baseVars>>
nonScanVars == <<remVars, sanVars, vaultVars, compileVars, lineVars, govVars, tuiVars, twiceVars,
     cacheVars, baseVars>>
nonVaultVars == <<remVars, sanVars, scanVars, compileVars, lineVars, govVars, tuiVars, twiceVars,
     cacheVars, baseVars>>
nonCompileVars == <<remVars, sanVars, scanVars, vaultVars, lineVars, govVars, tuiVars, twiceVars,
     cacheVars, baseVars>>
nonLineVars == <<remVars, sanVars, scanVars, vaultVars, compileVars, govVars, tuiVars, twiceVars,
     cacheVars, baseVars>>
nonGovVars == <<remVars, sanVars, scanVars, vaultVars, compileVars, lineVars, tuiVars, twiceVars,
     cacheVars, baseVars>>
nonTuiVars == <<remVars, sanVars, scanVars, vaultVars, compileVars, lineVars, govVars, twiceVars,
     cacheVars, baseVars>>
nonTwiceVars == <<remVars, sanVars, scanVars, vaultVars, compileVars, lineVars, govVars, tuiVars,
     cacheVars, baseVars>>
nonCacheVars ==
    <<remVars, sanVars, scanVars, vaultVars, compileVars, lineVars,
     govVars, tuiVars, twiceVars, baseVars>>
nonBaseVars ==
    <<remVars, sanVars, scanVars, vaultVars, compileVars, lineVars,
     govVars, tuiVars, twiceVars, cacheVars>>

vars == <<remVars, sanVars, scanVars, vaultVars, compileVars, lineVars, govVars, tuiVars,
          twiceVars, cacheVars, baseVars>>

(***************************************************************************)
(* Matches and providers.                                                  *)
(***************************************************************************)
\* The matches an engine can emit: rule_name, rule.pattern_type and the secret.
\* pattern_type is the string of the rule's configuration, which the regex
\* engine copies into the match whatever it says.
MatchKinds ==
    { [rule_name |-> "github_pat", pattern_type |-> "regex", original_string |-> "ghp_1"],
      [rule_name |-> "email", pattern_type |-> "regex", original_string |-> "a@b"],
      [rule_name |-> "high_entropy_secret", pattern_type |-> "entropy", original_string |-> "7f8a"],
      [rule_name |-> "build_token", pattern_type |-> "keyword", original_string |-> "tok9"] }

NoMatch == [rule_name |-> "", pattern_type |-> "", original_string |-> ""]

\* engine.providers: the GitHub remediator and a provider that handles every
\* match (as the test's MockProvider does) with a threshold of its own.
ProviderNames == <<"github", "mock">>
NumProviders == Len(ProviderNames)

\* Remediator::can_handle
can_handle(p, m) ==
    IF ProviderNames[p] = "github" THEN m.rule_name = "github_pat" ELSE TRUE

\* Remediator::auto_remediation_threshold
auto_remediation_threshold(p) ==
    IF ProviderNames[p] = "github" THEN Critical ELSE mockThreshold

\* SecretFingerprint::from_secret: the salted hash identifies (salt, secret);
\* the salt is fixed per engine, so the secret stands for the hash.
from_secret(m, p) == [hash |-> m.original_string, provider |-> ProviderNames[p]]

\* S3Vault::publish, seen from one orchestrator: the fingerprint is appended
\* unless the store already holds its hash.
vault_publish(store, fp) ==
    IF \E f \in store : f.hash = fp.hash THEN store ELSE store \cup {fp}

(***************************************************************************)
(* RemediationGovernor::allow_action                                       *)
(***************************************************************************)
ExpiredAtWindow(t, nw) == nw - t >= Window
\* line 41: a timestamp leaves the history once it is older than the window
Expired(t, nw) == nw - t > Window

RECURSIVE DropExpired(_, _)
DropExpired(h, nw) ==
    IF h # <<>> /\ Expired(Head(h), nw) THEN DropExpired(Tail(h), nw) ELSE h

HasRoomOffByOne(h) == Len(h) <= MaxActions
\* line 45
HasRoom(h) == Len(h) < MaxActions

allow_action(h, nw) ==
    LET kept == DropExpired(h, nw) IN
    IF HasRoom(kept)
    THEN [ok |-> TRUE, history |-> Append(kept, nw)]
    ELSE [ok |-> FALSE, history |-> kept]

(***************************************************************************)
(* Text.  A text is a sequence of characters.  "E" is the CSI introducer   *)
(* ESC [ (two bytes, neither of which is a visible character of the        *)
(* alphabet), "1" is a digit (inside a CSI, a parameter byte), "m" and "a" *)
(* are letters (inside a CSI, a final byte), "U" is a two-byte UTF-8       *)
(* character.  Offsets are byte offsets, as in the code.                   *)
(***************************************************************************)
Esc == "E"
Wide == "U"
AnsiChars == {Esc, "1", "m", "a", Wide}

Width(c) == IF c = Esc \/ c = Wide THEN 2 ELSE 1

RECURSIVE ByteLen(_)
ByteLen(s) == IF s = <<>> THEN 0 ELSE Width(Head(s)) + ByteLen(Tail(s))

\* Byte offset of the k-th character of s (k = Len(s) + 1: the length).
ByteOff(s, k) == ByteLen(SubSeq(s, 1, k - 1))

\* s[a..b], a and b byte offsets on character boundaries.
SliceBytes(s, a, b) ==
    SelectSeq([k \in 1..Len(s) |-> [c |-> s[k], off |-> ByteOff(s, k)]],
              LAMBDA x : a <= x.off /\ x.off < b)

CharsOf(sl) == [k \in 1..Len(sl) |-> sl[k].c]

Min(a, b) == IF a <= b THEN a ELSE b
Max(a, b) == IF a >= b THEN a ELSE b

IsParam(c) == c = "1"

\* strip_ansi_escapes::strip on CSI sequences: the indices of the characters
\* that stay.  A CSI runs from its introducer over parameter bytes to one
\* final byte.
RECURSIVE VisibleFrom(_, _, _)
VisibleFrom(s, k, inCsi) ==
    IF k > Len(s) THEN <<>>
    ELSE IF inCsi THEN VisibleFrom(s, k + 1, IsParam(s[k]))
    ELSE IF s[k] = Esc THEN VisibleFrom(s, k + 1, TRUE)
    ELSE <<k>> \o VisibleFrom(s, k + 1, FALSE)

VisibleIdx(s) == VisibleFrom(s, 1, FALSE)

strip(s) == LET v == VisibleIdx(s) IN [i \in 1..Len(v) |-> s[v[i]]]

\* The characters of s that belong to escape sequences, in order.
EscapesOf(s) ==
    LET v == VisibleIdx(s)
        vis == {v[i] : i \in 1..Len(v)}
    IN CharsOf(SelectSeq([k \in 1..Len(s) |-> [c |-> s[k], off |-> k]],
                         LAMBDA x : x.off \notin vis))

\* Every CSI of s is complete and holds only parameter bytes and a final byte.
RECURSIVE WellFormedFrom(_, _, _)
WellFormedFrom(s, k, inCsi) ==
    IF k > Len(s) THEN ~inCsi
    ELSE IF inCsi
         THEN /\ s[k] \in {"1", "m", "a"}
              /\ WellFormedFrom(s, k + 1, IsParam(s[k]))
    ELSE WellFormedFrom(s, k + 1, s[k] = Esc)

WellFormed(s) == WellFormedFrom(s, 1, FALSE)

(***************************************************************************)
(* StrippedIndexMapper (both engines carry the same one).                  *)
(***************************************************************************)
\* The first index >= k of orig whose character equals c; 0 when none.
RECURSIVE Seek(_, _, _)
Seek(orig, k, c) ==
    IF k > Len(orig) THEN 0
    ELSE IF orig[k] = c THEN k
    ELSE Seek(orig, k + 1, c)

\* StrippedIndexMapper::new: one entry per stripped character, found by
\* walking the original until a character equals it; then original.len().
RECURSIVE BuildMap(_, _, _, _)
BuildMap(st, j, orig, k) ==
    IF j > Len(st) THEN <<ByteLen(orig)>>
    ELSE LET hit == Seek(orig, k, st[j]) IN
         IF hit = 0 THEN BuildMap(st, j + 1, orig, Len(orig) + 1)
         ELSE <<ByteOff(orig, hit)>> \o BuildMap(st, j + 1, orig, hit + 1)

StrippedIndexMapper(original) == BuildMap(strip(original), 1, original, 1)

\* StrippedIndexMapper::map_index (a 0-based index into the 1-based sequence)
map_index(map, stripped_index) == map[Min(stripped_index, Len(map) - 1) + 1]

(***************************************************************************)
(* The remediation channel as an engine sees it: remediation_tx.           *)
(***************************************************************************)
AbsentChan == [present |-> FALSE, closed |-> FALSE, queue |-> <<>>]

\* mpsc::Sender::try_send succeeds when the channel is open and has room.
CanSend(ch) == ch.present /\ ~ch.closed /\ Len(ch.queue) < ChanCap

KeepsOnlyIfSent(attached, sent_ok) == ~attached \/ sent_ok
\* regex_engine.rs lines 168-169, entropy_engine.rs lines 160-163: the result
\* of try_send is discarded and the match is kept either way.
KeepsMatch(attached, sent_ok) == TRUE

\* One match goes through `if let Some(tx) = .. { let _ = tx.try_send(..) }`.
\* acc = [kept, chan, sentNow].
EmitOne(acc, m) ==
    LET ok == CanSend(acc.chan) IN
    [kept |-> IF KeepsMatch(acc.chan.present, ok) THEN Append(acc.kept, m) ELSE acc.kept,
     chan |-> IF ok THEN [acc.chan EXCEPT !.queue = Append(@, m)] ELSE acc.chan,
     sentNow |-> IF ok THEN Append(acc.sentNow, m) ELSE acc.sentNow]

RECURSIVE EmitAll(_, _)
EmitAll(acc, ms) ==
    IF ms = <<>> THEN acc ELSE EmitAll(EmitOne(acc, Head(ms)), Tail(ms))

(***************************************************************************)
(* RegexEngine.  A rule's regex is a literal; captures_iter yields its     *)
(* leftmost, non-overlapping occurrences in the stripped input.            *)
(***************************************************************************)
Rules ==
    << [name |-> "email",  pattern |-> <<"a", "1", "m">>, replace_with |-> <<"X">>, enabled |-> "unset"],
       [name |-> "domain", pattern |-> <<"1", "m">>,      replace_with |-> <<"Y">>, enabled |-> "true"],
       [name |-> "user",   pattern |-> <<"a", "1">>,      replace_with |-> <<"V">>, enabled |-> "unset"],
       [name |-> "tail",   pattern |-> <<"m", "a">>,      replace_with |-> <<"Z">>, enabled |-> "unset"],
       [name |-> "off",    pattern |-> <<"a">>,           replace_with |-> <<"W">>, enabled |-> "false"] >>
NumRules == Len(Rules)

\* The orders in which HashMap::values() (or iter()) can yield the rules.
RuleOrders == Permutations(1..NumRules)

\* captures_iter reporting character positions where the code has byte offsets
RECURSIVE captures_iter_chars(_, _, _)
captures_iter_chars(rule, st, p) ==
    LET n == Len(rule.pattern) IN
    IF p + n - 1 > Len(st) THEN <<>>
    ELSE IF SubSeq(st, p, p + n - 1) = rule.pattern
         THEN <<[rule_name |-> rule.name,
                 original_string |-> SubSeq(st, p, p + n - 1),
                 sanitized_string |-> rule.replace_with,
                 start |-> p - 1,
                 end |-> p + n - 1]>>
              \o captures_iter_chars(rule, st, p + n)
         ELSE captures_iter_chars(rule, st, p + 1)

RECURSIVE captures_iter(_, _, _)
captures_iter(rule, st, p) ==
    LET n == Len(rule.pattern) IN
    IF p + n - 1 > Len(st) THEN <<>>
    ELSE IF SubSeq(st, p, p + n - 1) = rule.pattern
         THEN <<[rule_name |-> rule.name,
                 original_string |-> SubSeq(st, p, p + n - 1),
                 sanitized_string |-> rule.replace_with,
                 start |-> ByteOff(st, p),
                 end |-> ByteOff(st, p + n)]>>
              \o captures_iter(rule, st, p + n)
         ELSE captures_iter(rule, st, p + 1)

\* find_matches, lines 152-173: the rules in compiled order, each rule's
\* matches in order of position; a disabled rule is skipped.
RECURSIVE FoundFrom(_, _)
FoundFrom(st, r) ==
    IF r > NumRules THEN <<>>
    ELSE (IF Rules[r].enabled = "false" THEN <<>> ELSE captures_iter(Rules[r], st, 1))
         \o FoundFrom(st, r + 1)

find_matches(content, ch) ==
    EmitAll([kept |-> <<>>, chan |-> ch, sentNow |-> <<>>], FoundFrom(strip(content), 1))

\* all_matches[rule_name]
MatchesOf(all, name) == SelectSeq(all, LAMBDA m : m.rule_name = name)

\* all_matches.values().flatten() under one iteration order of the map
RECURSIVE Flatten(_, _, _)
Flatten(all, order, k) ==
    IF k > Len(order) THEN <<>>
    ELSE MatchesOf(all, Rules[order[k]].name) \o Flatten(all, order, k + 1)

\* What all_matches.values().flatten() can yield.
HashOrders(all) == {Flatten(all, order, 1) : order \in RuleOrders}

\* sort_by_key(|m| m.start): a stable sort
RECURSIVE InsertByStart(_, _)
InsertByStart(sorted, m) ==
    IF sorted = <<>> THEN <<m>>
    ELSE IF Head(sorted).start <= m.start
         THEN <<Head(sorted)>> \o InsertByStart(Tail(sorted), m)
         ELSE <<m>> \o sorted

RECURSIVE SortByStart(_)
SortByStart(ms) ==
    IF ms = <<>> THEN <<>>
    ELSE InsertByStart(SortByStart(SubSeq(ms, 1, Len(ms) - 1)), ms[Len(ms)])

DropsNever(original_end, last_end) == FALSE
DropsOnlyInside(original_end, last_end) == original_end < last_end
\* regex_engine.rs line 200, entropy_engine.rs line 247
Drops(original_end, last_end) == original_end <= last_end

\* One turn of the applier loop (regex_engine.rs lines 197-204,
\* entropy_engine.rs lines 243-251).  acc = [out, last_end, spans, applied].
ApplyOne(content, map, acc, m) ==
    LET original_start == map_index(map, m.start)
        original_end == map_index(map, m.end)
    IN IF Drops(original_end, acc.last_end)
       THEN [acc EXCEPT !.applied = Append(@, FALSE)]
       ELSE LET current_start == Max(original_start, acc.last_end) IN
            [out |-> acc.out \o CharsOf(SliceBytes(content, acc.last_end, current_start))
                             \o m.sanitized_string,
             last_end |-> original_end,
             spans |-> Append(acc.spans, [from |-> current_start, to |-> original_end]),
             applied |-> Append(acc.applied, TRUE)]

RECURSIVE ApplyAll(_, _, _, _)
ApplyAll(content, map, acc, ms) ==
    IF ms = <<>> THEN acc
    ELSE ApplyAll(content, map, ApplyOne(content, map, acc, Head(ms)), Tail(ms))

\* The applier: the loop, then the rest of the content.
Applier(content, sorted) ==
    LET acc == ApplyAll(content, StrippedIndexMapper(content),
                        [out |-> <<>>, last_end |-> 0, spans |-> <<>>, applied |-> <<>>],
                        sorted)
    IN [acc EXCEPT !.out = @ \o CharsOf(SliceBytes(content, acc.last_end, ByteLen(content)))]

\* The summary of the regex engine: one item per rule that has matches, with
\* the number of its matches (lines 218-225 and 231-238).
RegexSummary(all) ==
    { [rule_name |-> Rules[r].name, occurrences |-> Len(MatchesOf(all, Rules[r].name))] :
        r \in {q \in 1..NumRules : MatchesOf(all, Rules[q].name) # <<>>} }

BlankRun ==
    [done |-> FALSE, out |-> <<>>, summary |-> {}, sorted |-> <<>>, applied |-> <<>>,
     spans |-> <<>>, found |-> <<>>, sentNow |-> <<>>, room |-> 0]

\* How many matches the channel can still take.
RoomOf(ch) == IF ch.present /\ ~ch.closed THEN ChanCap - Len(ch.queue) ELSE 0

\* RegexEngine::sanitize
RegexSanitize(content, flattened, ch) ==
    LET fm == find_matches(content, ch)
        sorted == SortByStart(flattened)
        app == Applier(content, sorted)
    IN [run |-> [done |-> TRUE, out |-> app.out, summary |-> RegexSummary(fm.kept),
                 sorted |-> sorted, applied |-> app.applied, spans |-> app.spans,
                 found |-> FoundFrom(strip(content), 1), sentNow |-> fm.sentNow,
                 room |-> RoomOf(ch)],
        chan |-> fm.chan]

\* RegexEngine::analyze_for_stats
RegexAnalyze(content, ch) ==
    LET fm == find_matches(content, ch)
    IN [run |-> [BlankRun EXCEPT !.done = TRUE, !.summary = RegexSummary(fm.kept),
                                 !.found = FoundFrom(strip(content), 1),
                                 !.sentNow = fm.sentNow, !.room = RoomOf(ch)],
        chan |-> fm.chan]

(***************************************************************************)
(* The entropy engine.  Its texts are single-byte characters: "A" an       *)
(* upper-case letter or digit, "a" a lower-case letter, "=" a label        *)
(* delimiter, " " whitespace, "!" sentence punctuation, "q" a quote.       *)
(* The confidence of a window is a floating-point function of the text;    *)
(* here it is the number of "A" bytes in the window, and the engine's      *)
(* confidence_threshold is one of Thresholds.                              *)
(***************************************************************************)
\* text[i], i a 0-based byte index
ByteAt(text, i) == text[i + 1]

IsAnchor(b) == b = "="
IsLeadTrim(b) == b \in {" ", "q"}
IsLowTail(b) == b \in {"a", " ", "!"}
IsStitchStop(b) == b \in {" ", "q"}
IsCoreTail(b) == b \in {" ", "!", "q"}

\* The confidence of the window that starts at byte i.
calculate_confidence(text, i) ==
    Cardinality({k \in i..(i + EntWindow - 1) : ByteAt(text, k) = "A"})

Thresholds == {EntWindow - 1, EntWindow}

\* cleansh-entropy EntropyEngine::scan, pass 1
RECURSIVE Locate(_, _, _)
Locate(text, threshold, i) ==
    IF i > Len(text) - EntWindow THEN <<>>
    ELSE IF calculate_confidence(text, i) >= threshold
         THEN <<[start |-> i, end |-> i + EntWindow]>>
              \o Locate(text, threshold, i + (EntWindow \div 2))
         ELSE Locate(text, threshold, i + 1)

\* consolidate_matches: acc is the merged prefix, its last element `current`
RECURSIVE consolidate_matches(_, _)
consolidate_matches(acc, ms) ==
    IF ms = <<>> THEN acc
    ELSE IF acc = <<>> THEN consolidate_matches(<<Head(ms)>>, Tail(ms))
    ELSE LET current == acc[Len(acc)]
             next == Head(ms)
         IN IF next.start <= current.end
            THEN consolidate_matches([acc EXCEPT ![Len(acc)].end = next.end], Tail(ms))
            ELSE consolidate_matches(Append(acc, next), Tail(ms))

\* rposition of ':' or '=' in text[start..end]; -1 when none
RECURSIVE LastAnchor(_, _, _)
LastAnchor(text, start, i) ==
    IF i < start THEN -1
    ELSE IF IsAnchor(ByteAt(text, i)) THEN i
    ELSE LastAnchor(text, start, i - 1)

SemanticAnchor(text, start, end) ==
    LET pos == LastAnchor(text, start, end - 1) IN
    IF pos >= 0 /\ pos + 1 < end THEN pos + 1 ELSE start

RECURSIVE LeadingTrim(_, _, _)
LeadingTrim(text, start, end) ==
    IF start < end /\ IsLeadTrim(ByteAt(text, start))
    THEN LeadingTrim(text, start + 1, end)
    ELSE start

RECURSIVE DecayWalk(_, _, _)
DecayWalk(text, start, end) ==
    IF end - start > 2 /\ IsLowTail(ByteAt(text, end - 1))
    THEN DecayWalk(text, start, end - 1)
    ELSE end

\* cleansh-entropy EntropyEngine::extract_secret_core
extract_secret_core(text, m) ==
    LET start == LeadingTrim(text, SemanticAnchor(text, m.start, m.end), m.end)
    IN [start |-> start, end |-> DecayWalk(text, start, m.end)]

\* cleansh-entropy EntropyEngine::scan
scan(text, threshold) ==
    IF Len(text) < EntWindow THEN <<>>
    ELSE LET consolidated == consolidate_matches(<<>>, Locate(text, threshold, 0))
             refined == [k \in 1..Len(consolidated) |->
                            extract_secret_core(text, consolidated[k])]
         IN SelectSeq(refined, LAMBDA m : m.end - m.start >= MinCore)

\* find_matches_internal, lines 131-147
RECURSIVE MergeIntervals(_, _)
MergeIntervals(acc, ms) ==
    IF ms = <<>> THEN acc
    ELSE IF acc = <<>> THEN MergeIntervals(<<Head(ms)>>, Tail(ms))
    ELSE LET current == acc[Len(acc)]
             m == Head(ms)
         IN IF m.start <= current.end
            THEN MergeIntervals([acc EXCEPT ![Len(acc)].end = Max(current.end, m.end)],
                                Tail(ms))
            ELSE MergeIntervals(Append(acc, m), Tail(ms))

RECURSIVE Stitch(_, _)
Stitch(text, end) ==
    IF end < Len(text) /\ ~IsStitchStop(ByteAt(text, end))
    THEN Stitch(text, end + 1)
    ELSE end

RECURSIVE TailTrim(_, _, _)
TailTrim(text, start, end) ==
    IF end - start > 2 /\ IsCoreTail(ByteAt(text, end - 1))
    THEN TailTrim(text, start, end - 1)
    ELSE end

\* cleansh-core EntropyEngine::extract_secret_core_indices
extract_secret_core_indices(text, raw_start, raw_end) ==
    LET start == LeadingTrim(text, SemanticAnchor(text, raw_start, raw_end), raw_end)
    IN [start |-> start, end |-> TailTrim(text, start, Stitch(text, raw_end))]

\* create_redaction_match
EntropyMatchOf(text, iv) ==
    [rule_name |-> "high_entropy_secret",
     original_string |-> SubSeq(text, iv.start + 1, iv.end),
     sanitized_string |-> <<"R">>,
     start |-> iv.start,
     end |-> iv.end]

\* The matches find_matches_internal builds, before they are sent.
EntropyFound(content, threshold) ==
    LET text == strip(content)
        merged == MergeIntervals(<<>>, SortByStart(scan(text, threshold)))
    IN [k \in 1..Len(merged) |->
          EntropyMatchOf(text, extract_secret_core_indices(text, merged[k].start,
                                                           merged[k].end))]

find_matches_internal(content, threshold, ch) ==
    EmitAll([kept |-> <<>>, chan |-> ch, sentNow |-> <<>>], EntropyFound(content, threshold))

CountTrue(flags) == Cardinality({k \in 1..Len(flags) : flags[k]})

\* EntropyEngine::sanitize, lines 253-261: an entry is made, and counted up,
\* for the matches that get past the `continue`.
SanitizeCount(sorted, applied) == CountTrue(applied)

EntropySummary(n) ==
    IF n = 0 THEN {} ELSE {[rule_name |-> "high_entropy_secret", occurrences |-> n]}

\* EntropyEngine::sanitize
EntropySanitize(content, threshold, ch) ==
    LET fm == find_matches_internal(content, threshold, ch)
        sorted == SortByStart(fm.kept)
        app == Applier(content, sorted)
    IN [run |-> [done |-> TRUE, out |-> app.out,
                 summary |-> EntropySummary(SanitizeCount(sorted, app.applied)),
                 sorted |-> sorted, applied |-> app.applied, spans |-> app.spans,
                 found |-> EntropyFound(content, threshold), sentNow |-> fm.sentNow,
                 room |-> RoomOf(ch)],
        chan |-> fm.chan]

\* EntropyEngine::analyze_for_stats, lines 268-281
EntropyAnalyze(content, threshold, ch) ==
    LET fm == find_matches_internal(content, threshold, ch)
    IN [run |-> [BlankRun EXCEPT !.done = TRUE, !.summary = EntropySummary(Len(fm.kept)),
                                 !.found = EntropyFound(content, threshold),
                                 !.sentNow = fm.sentNow, !.room = RoomOf(ch)],
        chan |-> fm.chan]

(***************************************************************************)
(* SelfHealingEngine::listen, one step per await.                          *)
(***************************************************************************)
VerifyResults == {"ok_true", "ok_false", "err"}
RemediateResults == {"ok_success", "ok_abort", "err"}

is_live_unless_false(res) == res # "ok_false"
\* lines 112-115: only Ok(true) counts as live
is_live_of(res) == res = "ok_true"

\* lines 119-123: the confidence of a match that did not verify as live
detection_confidence(m) == IF m.pattern_type = "regex" THEN High ELSE Medium

current_confidence_of_detection(is_live, m) == detection_confidence(m)
\* lines 117-123
current_confidence(is_live, m) ==
    IF is_live THEN Critical ELSE detection_confidence(m)

ConsultsAlways(conf, thr) == TRUE
\* line 127
Consults(conf, thr) == conf >= thr

AuthorizedIgnoringGovernor(consulted, gov_ok, inter, is_live, answer) ==
    IF consulted THEN TRUE ELSE IF inter /\ is_live THEN answer ELSE FALSE
\* lines 125-134
Authorized(consulted, gov_ok, inter, is_live, answer) ==
    IF consulted THEN gov_ok
    ELSE IF inter /\ is_live THEN answer
    ELSE FALSE

\* line 132: the branch that prompts the operator
Prompts(consulted, inter, is_live) == ~consulted /\ inter /\ is_live

\* The first provider from index `from` on that can handle m; 0 when none.
RECURSIVE NextHandler(_, _)
NextHandler(m, from) ==
    IF from > NumProviders THEN 0
    ELSE IF can_handle(from, m) THEN from
    ELSE NextHandler(m, from + 1)

BlankCur ==
    [gated |-> FALSE, m |-> NoMatch, p |-> 0, verified |-> "", live |-> FALSE, conf |-> Low,
     consulted |-> FALSE, allowed |-> FALSE, prompted |-> FALSE, answer |-> FALSE,
     remediated |-> FALSE, outcome |-> "", publishCalled |-> FALSE]

InitRem ==
    /\ now = 0
    /\ history = <<>>
    /\ grants = <<>>
    /\ queue = <<>>
    /\ sent = 0
    /\ pc = "recv"
    /\ redaction = NoMatch
    /\ pi = 0
    /\ cur = BlankCur
    /\ vaultStore = {}
    /\ interactive \in BOOLEAN
    /\ hasVault \in BOOLEAN
    /\ mockThreshold \in Levels
    /\ closed = FALSE
    /\ closedWith = 0

\* Time passes.
Tick ==
    /\ now < MaxTime
    /\ now' = now + 1
    /\ UNCHANGED <<history, grants, queue, sent, pc, redaction, pi, cur,
                   vaultStore, interactive, hasVault, mockThreshold>>
    /\ UNCHANGED <<closed, closedWith>>
    /\ UNCHANGED nonRemVars

\* An engine's try_send puts a match into the channel when there is room.
Send ==
    /\ ~closed
    /\ sent < MaxSends
    /\ Len(queue) < ChanCap
    /\ \E m \in MatchKinds : queue' = Append(queue, m)
    /\ sent' = sent + 1
    /\ UNCHANGED <<now, history, grants, pc, redaction, pi, cur,
                   vaultStore, interactive, hasVault, mockThreshold>>
    /\ UNCHANGED <<closed, closedWith>>
    /\ UNCHANGED nonRemVars

\* The for loop moves on to the next provider that can handle the match, or
\* the while loop goes back to rx.recv().
MoveOn(m, from) ==
    LET nxt == NextHandler(m, from) IN
    IF nxt = 0
    THEN /\ pc' = "recv" /\ pi' = 0 /\ redaction' = NoMatch
    ELSE /\ pc' = "verify" /\ pi' = nxt /\ redaction' = m

\* line 106: rx.recv().await returns a match
Recv ==
    /\ pc = "recv"
    /\ queue # <<>>
    /\ queue' = Tail(queue)
    /\ MoveOn(Head(queue), 1)
    /\ cur' = BlankCur
    /\ UNCHANGED <<now, history, grants, sent,
                   vaultStore, interactive, hasVault, mockThreshold>>
    /\ UNCHANGED <<closed, closedWith>>
    /\ UNCHANGED nonRemVars

\* lines 112-137: verify_live_status returns; the confidence is assessed, the
\* gate decides and, when authorized, remediate is called.  The operator's
\* answer to a prompt is drawn with the step.
VerifyDone ==
    /\ pc = "verify"
    /\ \E res \in VerifyResults, answer \in BOOLEAN :
         LET is_live == is_live_of(res)
             conf == current_confidence(is_live, redaction)
             thr == auto_remediation_threshold(pi)
             consulted == Consults(conf, thr)
             gov == allow_action(history, now)
             gov_ok == consulted /\ gov.ok
             prompted == Prompts(consulted, interactive, is_live)
             authorized == Authorized(consulted, gov_ok, interactive, is_live, answer)
         IN /\ history' = IF consulted THEN gov.history ELSE history
            /\ grants' = IF gov_ok THEN Append(grants, now) ELSE grants
            /\ cur' = [BlankCur EXCEPT !.gated = TRUE, !.m = redaction, !.p = pi,
                          !.verified = res, !.live = is_live, !.conf = conf,
                          !.consulted = consulted, !.allowed = gov_ok,
                          !.prompted = prompted, !.answer = prompted /\ answer,
                          !.remediated = authorized]
            /\ IF authorized
               THEN /\ pc' = "remediate" /\ UNCHANGED <<pi, redaction>>
               ELSE MoveOn(redaction, pi + 1)
    /\ UNCHANGED <<now, queue, sent, vaultStore, interactive, hasVault, mockThreshold>>
    /\ UNCHANGED <<closed, closedWith>>
    /\ UNCHANGED nonRemVars

\* line 138: the Ok(outcome) arm publishes, whatever outcome.successful says
PublishesOn(out) == out \in {"ok_success", "ok_abort"}

\* lines 137-150: remediate returns
RemediateDone ==
    /\ pc = "remediate"
    /\ \E out \in RemediateResults :
         LET publish == PublishesOn(out) /\ hasVault IN
         /\ cur' = [cur EXCEPT !.outcome = out, !.publishCalled = publish]
         /\ IF publish
            THEN /\ pc' = "publish" /\ UNCHANGED <<pi, redaction>>
            ELSE MoveOn(redaction, pi + 1)
    /\ UNCHANGED <<now, history, grants, queue, sent,
                   vaultStore, interactive, hasVault, mockThreshold>>
    /\ UNCHANGED <<closed, closedWith>>
    /\ UNCHANGED nonRemVars

\* line 146: vault.publish(fp).await returns; its error is ignored
PublishDone ==
    /\ pc = "publish"
    /\ \E ok \in BOOLEAN :
         vaultStore' = IF ok THEN vault_publish(vaultStore, from_secret(redaction, pi))
                       ELSE vaultStore
    /\ MoveOn(redaction, pi + 1)
    /\ UNCHANGED <<now, history, grants, queue, sent, cur,
                   interactive, hasVault, mockThreshold>>
    /\ UNCHANGED <<closed, closedWith>>
    /\ UNCHANGED nonRemVars

\* No engine runs beside the orchestrator.
IdleSan ==
    /\ engine = "none"
    /\ input = <<>>
    /\ confidence_threshold = 0
    /\ remediation_tx = AbsentChan
    /\ sanRun = BlankRun
    /\ anaRun = BlankRun

\* No scan is under way.
IdleScan ==
    /\ scanText = <<>>
    /\ window_size = 1
    /\ scanThreshold = 1
    /\ scan_i = 0
    /\ raw_matches = <<>>
    /\ scanPc = "idle"
    /\ scanResult = <<>>

Publishers == {1, 2}

\* No publisher is at work on the S3 object.
IdleVault ==
    /\ s3Object = <<>>
    /\ store0 = <<>>
    /\ pubPc = [p \in Publishers |-> "off"]
    /\ pubFp = [p \in Publishers |-> 0]
    /\ pubAll = [p \in Publishers |-> <<>>]
    /\ pubSeen = [p \in Publishers |-> <<>>]
    /\ pubDone = [p \in Publishers |-> 0]
    /\ bothRead = FALSE
    /\ anyFailure = FALSE

\* compile_rules is not running.
IdleCompile ==
    /\ rules_to_compile = <<>>
    /\ compiled = [ok |-> TRUE, rules |-> <<>>, errors |-> 0]
    /\ compilePc = "idle"

\* Line-buffered mode is not running.
IdleLine ==
    /\ stdinBytes = <<>>
    /\ stdinClosed = FALSE
    /\ stdinFed = 0
    /\ line = <<>>
    /\ linesRead = <<>>
    /\ written = <<>>
    /\ linePc = "off"

\* A governor that has not been asked.
IdleGov ==
    /\ govNow = 0
    /\ govHistory = <<>>
    /\ govCalls = <<>>

\* The threads that call get_or_compile_rules.
Callers == {1, 2}

\* The cache is empty and nobody calls get_or_compile_rules.
IdleCache ==
    /\ COMPILED_RULES_CACHE = {}
    /\ cacheReaders = {}
    /\ cacheWriter = 0
    /\ callPc = [c \in Callers |-> "idle"]
    /\ callConfig = [c \in Callers |-> <<>>]
    /\ callFound = [c \in Callers |-> FALSE]
    /\ callCompiled = [c \in Callers |-> 0]
    /\ callRet = [c \in Callers |-> 0]
    /\ arcs = 0
    /\ callsStarted = 0

\* No window is being scored.
IdleBase ==
    /\ baseLen = 0
    /\ baseWindow = 0
    /\ base_i = 0
    /\ window_chunk_size = 0
    /\ context_samples = <<>>
    /\ basePc = "off"

\* No text is being sanitized twice.
IdleTwice ==
    /\ twiceInput = <<>>
    /\ twiceFirst = <<>>
    /\ twiceSecond = <<>>
    /\ twicePc = "off"

\* The TUI is not running.
IdleTui ==
    /\ stdinLines = <<>>
    /\ rx_line = <<>>
    /\ rx_match = <<>>
    /\ raw_input_buffer = <<>>
    /\ log_lines = <<>>
    /\ matches = <<>>
    /\ match_list_state = -1
    /\ current_engine = "Entropy"
    /\ show_engine_menu = FALSE
    /\ engine_list_state = 1
    /\ replays = <<>>
    /\ should_quit = TRUE

Init ==
    /\ InitRem /\ IdleSan /\ IdleScan /\ IdleVault /\ IdleCompile /\ IdleLine /\ IdleGov
    /\ IdleTui /\ IdleTwice /\ IdleCache /\ IdleBase

Next ==
    \/ Tick
    \/ Send
    \/ Recv
    \/ VerifyDone
    \/ RemediateDone
    \/ PublishDone

Spec == Init /\ [][Next]_vars

(***************************************************************************)
(* The listen task to its end: the senders can be dropped, and rx.recv()   *)
(* then returns None once the queue is empty.                              *)
(***************************************************************************)
\* The last Sender is dropped.
DropSenders ==
    /\ ~closed
    /\ closed' = TRUE
    /\ closedWith' = Len(queue)
    /\ UNCHANGED <<now, history, grants, queue, sent, pc, redaction, pi, cur,
                   vaultStore, interactive, hasVault, mockThreshold>>
    /\ UNCHANGED nonRemVars

RecvEndsAtClose(is_closed, q) == is_closed
\* tokio mpsc::Receiver::recv: None when the channel is closed and empty
RecvEnds(is_closed, q) == is_closed /\ q = <<>>

\* line 106: rx.recv().await returns None and the while loop, and with it the
\* task, ends
RecvNone ==
    /\ pc = "recv"
    /\ RecvEnds(closed, queue)
    /\ pc' = "terminated"
    /\ UNCHANGED <<now, history, grants, queue, sent, redaction, pi, cur,
                   vaultStore, interactive, hasVault, mockThreshold, closed, closedWith>>
    /\ UNCHANGED nonRemVars

NextListen ==
    \/ Tick
    \/ Send
    \/ DropSenders
    \/ Recv
    \/ RecvNone
    \/ VerifyDone
    \/ RemediateDone
    \/ PublishDone

\* A non-interactive orchestrator with a vault, both providers at Critical.
InitListen ==
    /\ Init
    /\ ~interactive
    /\ hasVault
    /\ mockThreshold = Critical

\* The runtime polls the task when it can go on, and every call it awaits
\* returns.
SpecListen ==
    /\ InitListen
    /\ [][NextListen]_vars
    /\ WF_vars(Recv)
    /\ WF_vars(RecvNone)
    /\ WF_vars(VerifyDone)
    /\ WF_vars(RemediateDone)
    /\ WF_vars(PublishDone)

(***************************************************************************)
(* The engines at work: one sanitize and one analyze_for_stats call on an  *)
(* input, in either order, with the remediation channel in any state.      *)
(***************************************************************************)
RECURSIVE SeqsUpTo(_, _)
SeqsUpTo(S, n) ==
    IF n = 0 THEN {<<>>}
    ELSE LET shorter == SeqsUpTo(S, n - 1) IN
         shorter \cup {Append(t, c) : t \in shorter, c \in S}

\* The inputs of the regex engine: texts with complete CSI sequences.
RegexContents == {t \in SeqsUpTo(AnsiChars, MaxLen) : WellFormed(t)}

Pieces ==
    { <<"A", "A", "A", "A", "A", "A">>, <<"A", "A", "A", "A", "A">>, <<"A">>, <<"a">>, <<"=">>, <<" ">>, <<"!">>, <<"q">> }

RECURSIVE PiecesUpTo(_)
PiecesUpTo(n) ==
    IF n = 0 THEN {<<>>}
    ELSE LET shorter == PiecesUpTo(n - 1) IN
         shorter \cup {t \o p : t \in shorter, p \in Pieces}

\* The inputs of the entropy engine.
EntropyContents == PiecesUpTo(MaxPieces)

\* A match some earlier call left in the channel.
Earlier ==
    [rule_name |-> "earlier", original_string |-> <<>>, sanitized_string |-> <<>>,
     start |-> 0, end |-> 0]

\* No channel attached; an open channel, empty or full; a closed channel.
ChanStates ==
    { AbsentChan,
      [present |-> TRUE, closed |-> FALSE, queue |-> <<>>],
      [present |-> TRUE, closed |-> FALSE, queue |-> [k \in 1..ChanCap |-> Earlier]],
      [present |-> TRUE, closed |-> TRUE, queue |-> <<>>] }

\* The orchestrator is not running.
IdleRem ==
    /\ now = 0
    /\ history = <<>>
    /\ grants = <<>>
    /\ queue = <<>>
    /\ sent = 0
    /\ pc = "recv"
    /\ redaction = NoMatch
    /\ pi = 0
    /\ cur = BlankCur
    /\ vaultStore = {}
    /\ interactive = FALSE
    /\ hasVault = FALSE
    /\ mockThreshold = Critical
    /\ closed = FALSE
    /\ closedWith = 0

InitSan ==
    /\ IdleRem
    /\ IdleScan
    /\ IdleVault
    /\ IdleCompile
    /\ IdleLine
    /\ IdleGov
    /\ IdleTui
    /\ IdleTwice /\ IdleCache /\ IdleBase
    /\ engine \in {"regex", "entropy"}
    /\ input \in IF engine = "regex" THEN RegexContents ELSE EntropyContents
    /\ confidence_threshold \in IF engine = "regex" THEN {0} ELSE Thresholds
    /\ remediation_tx \in ChanStates
    /\ sanRun = BlankRun
    /\ anaRun = BlankRun

SanitizeRegex ==
    /\ engine = "regex"
    /\ ~sanRun.done
    /\ \E flattened \in HashOrders(find_matches(input, remediation_tx).kept) :
         LET r == RegexSanitize(input, flattened, remediation_tx) IN
         /\ sanRun' = r.run
         /\ remediation_tx' = r.chan
    /\ UNCHANGED <<engine, input, confidence_threshold, anaRun>>
    /\ UNCHANGED nonSanVars

AnalyzeRegex ==
    /\ engine = "regex"
    /\ ~anaRun.done
    /\ LET r == RegexAnalyze(input, remediation_tx) IN
         /\ anaRun' = r.run
         /\ remediation_tx' = r.chan
    /\ UNCHANGED <<engine, input, confidence_threshold, sanRun>>
    /\ UNCHANGED nonSanVars

SanitizeEntropy ==
    /\ engine = "entropy"
    /\ ~sanRun.done
    /\ LET r == EntropySanitize(input, confidence_threshold, remediation_tx) IN
         /\ sanRun' = r.run
         /\ remediation_tx' = r.chan
    /\ UNCHANGED <<engine, input, confidence_threshold, anaRun>>
    /\ UNCHANGED nonSanVars

AnalyzeEntropy ==
    /\ engine = "entropy"
    /\ ~anaRun.done
    /\ LET r == EntropyAnalyze(input, confidence_threshold, remediation_tx) IN
         /\ anaRun' = r.run
         /\ remediation_tx' = r.chan
    /\ UNCHANGED <<engine, input, confidence_threshold, sanRun>>
    /\ UNCHANGED nonSanVars

NextSan ==
    \/ SanitizeRegex
    \/ AnalyzeRegex
    \/ SanitizeEntropy
    \/ AnalyzeEntropy

SpecSan == InitSan /\ [][NextSan]_vars

(***************************************************************************)
(* cleansh-entropy EntropyEngine::scan, one turn of its while loop per     *)
(* step, for any window_size.  The confidence of a window is the number of *)
(* its "A" bytes.                                                          *)
(***************************************************************************)
ScanAlphabet == {"A", "a", "=", " "}

\* lines 62-66: the confidence of text[i..i + w]
window_confidence(text, i, w) ==
    Cardinality({k \in i..(i + w - 1) : ByteAt(text, k) = "A"})

\* line 76: i += self.window_size / 2
HalfWindow(w) == w \div 2

InitScan ==
    /\ IdleRem
    /\ IdleSan
    /\ IdleVault
    /\ IdleCompile
    /\ IdleLine
    /\ IdleGov
    /\ IdleTui
    /\ IdleTwice /\ IdleCache /\ IdleBase
    /\ scanText \in SeqsUpTo(ScanAlphabet, MaxScanLen)
    /\ window_size \in 1..MaxWindow
    /\ scanThreshold \in {Max(window_size - 1, 1), window_size}
    /\ scan_i = 0
    /\ raw_matches = <<>>
    /\ scanPc = "start"
    /\ scanResult = <<>>

\* lines 52-58: a text shorter than the window gives no match
ScanEnter ==
    /\ scanPc = "start"
    /\ scanPc' = IF Len(scanText) < window_size THEN "done" ELSE "loop"
    /\ UNCHANGED <<scanText, window_size, scanThreshold, scan_i, raw_matches, scanResult>>
    /\ UNCHANGED nonScanVars

\* lines 60-80: one turn of the loop
ScanStep ==
    /\ scanPc = "loop"
    /\ scan_i <= Len(scanText) - window_size
    /\ IF window_confidence(scanText, scan_i, window_size) >= scanThreshold
       THEN /\ Len(raw_matches) < MaxRaw
            /\ raw_matches' = Append(raw_matches,
                                     [start |-> scan_i, end |-> scan_i + window_size])
            /\ scan_i' = scan_i + HalfWindow(window_size)
       ELSE /\ scan_i' = scan_i + 1
            /\ UNCHANGED raw_matches
    /\ UNCHANGED <<scanText, window_size, scanThreshold, scanPc, scanResult>>
    /\ UNCHANGED nonScanVars

\* lines 82-91: the loop is over; consolidate, extract, filter
ScanExit ==
    /\ scanPc = "loop"
    /\ scan_i > Len(scanText) - window_size
    /\ LET consolidated == consolidate_matches(<<>>, raw_matches)
           refined == [k \in 1..Len(consolidated) |->
                          extract_secret_core(scanText, consolidated[k])]
       IN scanResult' = SelectSeq(refined, LAMBDA m : m.end - m.start >= MinCore)
    /\ scanPc' = "done"
    /\ UNCHANGED <<scanText, window_size, scanThreshold, scan_i, raw_matches>>
    /\ UNCHANGED nonScanVars

NextScan ==
    \/ ScanEnter
    \/ ScanStep
    \/ ScanExit

SpecScan == InitScan /\ [][NextScan]_vars

(***************************************************************************)
(* A RemediationGovernor on its own, asked at any time.                    *)
(***************************************************************************)
\* RemediationGovernor::new(MaxActions, Window) and its callers' clock.
InitGov ==
    /\ IdleRem
    /\ IdleSan
    /\ IdleScan
    /\ IdleVault
    /\ IdleCompile
    /\ IdleLine
    /\ IdleTui
    /\ IdleTwice /\ IdleCache /\ IdleBase
    /\ govNow = 0
    /\ govHistory = <<>>
    /\ govCalls = <<>>

GovTick ==
    /\ govNow < MaxTime
    /\ govNow' = govNow + 1
    /\ UNCHANGED <<govHistory, govCalls>>
    /\ UNCHANGED nonGovVars

\* lines 39-51
GovAllow ==
    /\ Len(govCalls) < MaxCalls
    /\ govHistory' = allow_action(govHistory, govNow).history
    /\ govCalls' = Append(govCalls, [at |-> govNow,
                                     kept |-> Len(DropExpired(govHistory, govNow)),
                                     ok |-> allow_action(govHistory, govNow).ok])
    /\ UNCHANGED govNow
    /\ UNCHANGED nonGovVars

NextGov == GovTick \/ GovAllow

SpecGov == InitGov /\ [][NextGov]_vars

(***************************************************************************)
(* S3Vault::publish by two publishers on one object: fetch_all reads the   *)
(* list, and a publisher whose copy lacks the hash writes the copy plus    *)
(* the fingerprint back.  Each request to S3 is one step and can fail.     *)
(***************************************************************************)
Hashes == 1..MaxHashes

\* line 38: all.iter().any(|f| f.hash == fingerprint.hash)
HasHash(list, h) == \E k \in 1..Len(list) : list[k] = h

\* How many entries of the list have the hash.
CountHash(list, h) == Cardinality({k \in 1..Len(list) : list[k] = h})

\* The lists without a repeated hash.
StoredLists == {l \in SeqsUpTo(Hashes, MaxHashes) : \A h \in Hashes : CountHash(l, h) <= 1}

\* lines 56-75 and line 35: any failure of the GET, of the body or of the
\* JSON gives the empty list
fetch_all(object, ok) == IF ok THEN object ELSE <<>>

PutObjectMerging(object, all, h) == IF HasHash(object, h) THEN object ELSE Append(object, h)
\* lines 39-50: the object is replaced by the copy with the fingerprint pushed
PutObject(object, all, h) == Append(all, h)

InitVault ==
    /\ IdleRem
    /\ IdleSan
    /\ IdleScan
    /\ IdleCompile
    /\ IdleLine
    /\ IdleGov
    /\ IdleTui
    /\ IdleTwice /\ IdleCache /\ IdleBase
    /\ s3Object \in StoredLists
    /\ store0 = s3Object
    /\ pubPc = [p \in Publishers |-> "idle"]
    /\ pubFp = [p \in Publishers |-> 0]
    /\ pubAll = [p \in Publishers |-> <<>>]
    /\ pubSeen = [p \in Publishers |-> <<>>]
    /\ pubDone = [p \in Publishers |-> 0]
    /\ bothRead = FALSE
    /\ anyFailure = FALSE

\* line 34: publish(fingerprint) is called and sends its GET
PublishCall(p) ==
    /\ pubPc[p] = "idle"
    /\ pubDone[p] < MaxPublishes
    /\ \E h \in Hashes : pubFp' = [pubFp EXCEPT ![p] = h]
    /\ pubPc' = [pubPc EXCEPT ![p] = "fetch"]
    /\ UNCHANGED <<s3Object, store0, pubAll, pubSeen, pubDone, bothRead, anyFailure>>
    /\ UNCHANGED nonVaultVars

\* lines 35-38: fetch_all returns; publish returns at once when the copy has
\* the hash
FetchAllDone(p) ==
    /\ pubPc[p] = "fetch"
    /\ \E ok \in BOOLEAN :
         LET all == fetch_all(s3Object, ok)
             found == HasHash(all, pubFp[p])
         IN /\ pubAll' = [pubAll EXCEPT ![p] = all]
            /\ pubSeen' = [pubSeen EXCEPT ![p] = s3Object]
            /\ pubPc' = [pubPc EXCEPT ![p] = IF found THEN "idle" ELSE "put"]
            /\ pubDone' = [pubDone EXCEPT ![p] = IF found THEN @ + 1 ELSE @]
            /\ bothRead' = (bothRead \/ (~found /\ \E q \in Publishers \ {p} : pubPc[q] = "put"))
            /\ anyFailure' = (anyFailure \/ ~ok)
    /\ UNCHANGED <<s3Object, store0, pubFp>>
    /\ UNCHANGED nonVaultVars

\* lines 39-52: put_object returns
PutObjectDone(p) ==
    /\ pubPc[p] = "put"
    /\ \E ok \in BOOLEAN :
         /\ s3Object' = IF ok THEN PutObject(s3Object, pubAll[p], pubFp[p]) ELSE s3Object
         /\ anyFailure' = (anyFailure \/ ~ok)
    /\ pubPc' = [pubPc EXCEPT ![p] = "idle"]
    /\ pubDone' = [pubDone EXCEPT ![p] = @ + 1]
    /\ UNCHANGED <<store0, pubFp, pubAll, pubSeen, bothRead>>
    /\ UNCHANGED nonVaultVars

NextVault ==
    \/ \E p \in Publishers : PublishCall(p)
    \/ \E p \in Publishers : FetchAllDone(p)
    \/ \E p \in Publishers : PutObjectDone(p)

SpecVault == InitVault /\ [][NextVault]_vars

(***************************************************************************)
(* compile_rules.  A rule has a name, a pattern_type and a pattern: none,  *)
(* or one of a length that the regex builder accepts or rejects.           *)
(***************************************************************************)
MAX_PATTERN_LENGTH == 500

NoPattern == [some |-> FALSE, len |-> 0, builds |-> FALSE]

Patterns ==
    {NoPattern} \cup [some : {TRUE},
                      len : {MAX_PATTERN_LENGTH, MAX_PATTERN_LENGTH + 1},
                      builds : BOOLEAN]

RuleNames == {"r1", "r2", "r3", "r4"}

RedactionRules == [name : RuleNames, pattern_type : {"regex", "entropy"}, pattern : Patterns]

\* The rule lists of a configuration: the names are unique.
UniqueNames(rules) ==
    \A j, k \in 1..Len(rules) : rules[j].name = rules[k].name => j = k

RuleLists == {l \in SeqsUpTo(RedactionRules, MaxRules) : UniqueNames(l)}

\* lines 77-124: the loop over the rules from the k-th on
RECURSIVE CompileFrom(_, _, _, _)
CompileFrom(rules, k, compiled_rules, compilation_errors) ==
    IF k > Len(rules)
    THEN [ok |-> compilation_errors = 0,
          rules |-> IF compilation_errors = 0 THEN compiled_rules ELSE <<>>,
          errors |-> compilation_errors]
    ELSE LET rule == rules[k]
         IN IF ~rule.pattern.some
            THEN CompileFrom(rules, k + 1, compiled_rules, compilation_errors)
            ELSE IF rule.pattern.len > MAX_PATTERN_LENGTH
            THEN CompileFrom(rules, k + 1, compiled_rules, compilation_errors + 1)
            ELSE IF rule.pattern.builds
            THEN CompileFrom(rules, k + 1, Append(compiled_rules, rule.name),
                             compilation_errors)
            ELSE CompileFrom(rules, k + 1, compiled_rules, compilation_errors + 1)

\* lines 71-140
compile_rules(rules) == CompileFrom(rules, 1, <<>>, 0)

InitCompile ==
    /\ IdleRem
    /\ IdleSan
    /\ IdleScan
    /\ IdleVault
    /\ IdleLine
    /\ IdleGov
    /\ IdleTui
    /\ IdleTwice /\ IdleCache /\ IdleBase
    /\ rules_to_compile \in RuleLists
    /\ compiled = [ok |-> TRUE, rules |-> <<>>, errors |-> 0]
    /\ compilePc = "call"

CompileRules ==
    /\ compilePc = "call"
    /\ compiled' = compile_rules(rules_to_compile)
    /\ compilePc' = "done"
    /\ UNCHANGED rules_to_compile
    /\ UNCHANGED nonCompileVars

NextCompile == CompileRules

SpecCompile == InitCompile /\ [][NextCompile]_vars

(***************************************************************************)
(* run_line_buffered_mode.  A writer feeds stdin byte by byte and closes   *)
(* it; the loop reads a line, sanitizes it and writes it.  "s" is a byte   *)
(* of a secret, which the engine replaces by "X"; a match that ends at the *)
(* end of the line can take the newline with it.                           *)
(***************************************************************************)
Newline == "\n"

LineAlphabet == {"a", "s", Newline}

\* The index of the first newline of the bytes, 0 when there is none.
FirstNewline(bytes) ==
    IF \E k \in 1..Len(bytes) : bytes[k] = Newline
    THEN CHOOSE k \in 1..Len(bytes) :
           bytes[k] = Newline /\ \A j \in 1..(k - 1) : bytes[j] # Newline
    ELSE 0

\* line 134: what read_line appends to the buffer, <<>> while it has to wait
\* or at the end of the input
read_line(bytes, is_closed) ==
    IF FirstNewline(bytes) > 0 THEN SubSeq(bytes, 1, FirstNewline(bytes))
    ELSE IF is_closed THEN bytes
    ELSE <<>>

ends_with_newline(text) == Len(text) > 0 /\ text[Len(text)] = Newline

\* The text without its final newline.
Chomp(text) == IF ends_with_newline(text) THEN SubSeq(text, 1, Len(text) - 1) ELSE text

\* line 135: engine.sanitize on one line
SanitizeLine(text, takes_newline) ==
    LET redacted == [k \in 1..Len(text) |-> IF text[k] = "s" THEN "X" ELSE text[k]]
    IN IF takes_newline /\ Len(text) > 1 /\ ends_with_newline(text)
          /\ text[Len(text) - 1] = "s"
       THEN Chomp(redacted)
       ELSE redacted

PushNewlineNever(text) == text
\* lines 140-142
PushNewline(text) == IF ends_with_newline(text) THEN text ELSE Append(text, Newline)

InitLine ==
    /\ IdleRem
    /\ IdleSan
    /\ IdleScan
    /\ IdleVault
    /\ IdleCompile
    /\ IdleGov
    /\ IdleTui
    /\ IdleTwice /\ IdleCache /\ IdleBase
    /\ stdinBytes = <<>>
    /\ stdinClosed = FALSE
    /\ stdinFed = 0
    /\ line = <<>>
    /\ linesRead = <<>>
    /\ written = <<>>
    /\ linePc = "read"

\* The other end of the pipe writes a byte to stdin.
FeedStdin ==
    /\ ~stdinClosed
    /\ stdinFed < MaxInput
    /\ \E b \in LineAlphabet : stdinBytes' = Append(stdinBytes, b)
    /\ stdinFed' = stdinFed + 1
    /\ UNCHANGED <<stdinClosed, line, linesRead, written, linePc>>
    /\ UNCHANGED nonLineVars

\* The other end of the pipe closes it.
CloseStdin ==
    /\ ~stdinClosed
    /\ stdinClosed' = TRUE
    /\ UNCHANGED <<stdinBytes, stdinFed, line, linesRead, written, linePc>>
    /\ UNCHANGED nonLineVars

\* line 134: read_line returns a line
ReadLine ==
    /\ linePc = "read"
    /\ read_line(stdinBytes, stdinClosed) # <<>>
    /\ line' = line \o read_line(stdinBytes, stdinClosed)
    /\ stdinBytes' = SubSeq(stdinBytes, Len(read_line(stdinBytes, stdinClosed)) + 1,
                            Len(stdinBytes))
    /\ linesRead' = Append(linesRead, line')
    /\ linePc' = "sanitize"
    /\ UNCHANGED <<stdinClosed, stdinFed, written>>
    /\ UNCHANGED nonLineVars

\* lines 135-160: the body of the loop
WriteLine ==
    /\ linePc = "sanitize"
    /\ \E takes_newline \in BOOLEAN :
         written' = written \o PushNewline(SanitizeLine(line, takes_newline))
    /\ line' = <<>>
    /\ linePc' = "read"
    /\ UNCHANGED <<stdinBytes, stdinClosed, stdinFed, linesRead>>
    /\ UNCHANGED nonLineVars

\* line 134: read_line returns 0 at the end of the input
ReadEof ==
    /\ linePc = "read"
    /\ stdinClosed
    /\ stdinBytes = <<>>
    /\ linePc' = "done"
    /\ UNCHANGED <<stdinBytes, stdinClosed, stdinFed, line, linesRead, written>>
    /\ UNCHANGED nonLineVars

NextLine ==
    \/ FeedStdin
    \/ CloseStdin
    \/ ReadLine
    \/ WriteLine
    \/ ReadEof

SpecLine == InitLine /\ [][NextLine]_vars

(***************************************************************************)
(* run_tui.  The stdin reader sends lines into the line channel; the main  *)
(* loop takes, one at a time, a key, a match or a line; a swap of engines  *)
(* spawns a task that sends the history into the line channel again.  A    *)
(* line is its number in the input and the secret it holds ("" for none).  *)
(***************************************************************************)
max_history == 1000

Secrets == {"", "k1", "k2"}

EngineTypes == <<"Regex", "Entropy", "Hybrid">>

\* mod.rs lines 129-132: Hybrid is served by the entropy engine too
EngineFor(type) == IF type = "Regex" THEN "RegexEngine" ELSE "EntropyEngine"

\* The lines stdin can bring: line k is the k-th line of the input.
InputLines ==
    UNION { {l \in [1..n -> [id : 1..n, secret : Secrets]] : \A k \in 1..n : l[k].id = k}
            : n \in 1..MaxTuiLines }

\* How many swaps have been made: each one spawned a replay task.
Swaps == Len(replays)

InitTui ==
    /\ IdleRem
    /\ IdleSan
    /\ IdleScan
    /\ IdleVault
    /\ IdleCompile
    /\ IdleLine
    /\ IdleGov
    /\ IdleTwice /\ IdleCache /\ IdleBase
    /\ stdinLines \in InputLines
    /\ rx_line = <<>>
    /\ rx_match = <<>>
    /\ raw_input_buffer = <<>>
    /\ log_lines = <<>>
    /\ matches = <<>>
    /\ match_list_state = -1
    /\ current_engine = "Entropy"
    /\ show_engine_menu = FALSE
    /\ engine_list_state = 1
    /\ replays = <<>>
    /\ should_quit = FALSE

\* mod.rs lines 40-75: the reader sends the next line of stdin
StdinSend ==
    /\ stdinLines # <<>>
    /\ rx_line' = Append(rx_line, Head(stdinLines))
    /\ stdinLines' = Tail(stdinLines)
    /\ UNCHANGED <<rx_match, raw_input_buffer, log_lines, matches, match_list_state,
                   current_engine, show_engine_menu, engine_list_state, replays,
                   should_quit>>
    /\ UNCHANGED nonTuiVars

\* mod.rs lines 144-148: a replay task sends its next line
ReplaySend(t) ==
    /\ replays[t] # <<>>
    /\ rx_line' = Append(rx_line, Head(replays[t]))
    /\ replays' = [replays EXCEPT ![t] = Tail(@)]
    /\ UNCHANGED <<stdinLines, rx_match, raw_input_buffer, log_lines, matches,
                   match_list_state, current_engine, show_engine_menu,
                   engine_list_state, should_quit>>
    /\ UNCHANGED nonTuiVars

\* app.rs lines 88-95
push_log_pair(buffer, raw) ==
    IF Len(buffer) >= max_history THEN Append(Tail(buffer), raw) ELSE Append(buffer, raw)

\* mod.rs lines 172-178: a line is sanitized and logged; the engine sends the
\* match of its secret into the match channel
ProcessLine ==
    /\ ~should_quit
    /\ rx_line # <<>>
    /\ LET raw_line == Head(rx_line) IN
         /\ rx_line' = Tail(rx_line)
         /\ rx_match' = IF raw_line.secret # "" THEN Append(rx_match, raw_line.secret)
                        ELSE rx_match
         /\ raw_input_buffer' = push_log_pair(raw_input_buffer, raw_line)
         /\ log_lines' = push_log_pair(log_lines,
                                       [id |-> raw_line.id, by |-> EngineFor(current_engine)])
    /\ UNCHANGED <<stdinLines, matches, match_list_state, current_engine,
                   show_engine_menu, engine_list_state, replays, should_quit>>
    /\ UNCHANGED nonTuiVars

\* app.rs lines 97-104
add_match(list, m) ==
    IF \E k \in 1..Len(list) : list[k].original_string = m
    THEN list
    ELSE Append(list, [original_string |-> m, status |-> "Pending"])

\* mod.rs lines 168-171
RecvMatch ==
    /\ ~should_quit
    /\ rx_match # <<>>
    /\ rx_match' = Tail(rx_match)
    /\ matches' = add_match(matches, Head(rx_match))
    /\ match_list_state' = IF matches' # matches /\ match_list_state = -1 THEN 0
                           ELSE match_list_state
    /\ UNCHANGED <<stdinLines, rx_line, raw_input_buffer, log_lines, current_engine,
                   show_engine_menu, engine_list_state, replays, should_quit>>
    /\ UNCHANGED nonTuiVars

\* self.matches.get_mut(index) finds an entry
Selected == match_list_state >= 0 /\ match_list_state < Len(matches)

\* app.rs line 109
Approves(status) == status = "Pending"

\* app.rs lines 106-116, key 'a'
approve_current ==
    /\ ~should_quit
    /\ ~show_engine_menu
    /\ matches' = IF Selected /\ Approves(matches[match_list_state + 1].status)
                  THEN [matches EXCEPT ![match_list_state + 1].status = "Approved"]
                  ELSE matches
    /\ UNCHANGED <<stdinLines, rx_line, rx_match, raw_input_buffer, log_lines,
                   match_list_state, current_engine, show_engine_menu,
                   engine_list_state, replays, should_quit>>
    /\ UNCHANGED nonTuiVars

\* app.rs lines 118-124, key 'i'
ignore_current ==
    /\ ~should_quit
    /\ ~show_engine_menu
    /\ matches' = IF Selected
                  THEN [matches EXCEPT ![match_list_state + 1].status = "Ignored"]
                  ELSE matches
    /\ UNCHANGED <<stdinLines, rx_line, rx_match, raw_input_buffer, log_lines,
                   match_list_state, current_engine, show_engine_menu,
                   engine_list_state, replays, should_quit>>
    /\ UNCHANGED nonTuiVars

\* app.rs lines 135-142, key Down
next_match ==
    /\ ~should_quit
    /\ ~show_engine_menu
    /\ match_list_state' =
         IF matches = <<>> THEN match_list_state
         ELSE IF match_list_state = -1 THEN 0
         ELSE IF match_list_state >= Len(matches) - 1 THEN 0
         ELSE match_list_state + 1
    /\ UNCHANGED <<stdinLines, rx_line, rx_match, raw_input_buffer, log_lines, matches,
                   current_engine, show_engine_menu, engine_list_state, replays,
                   should_quit>>
    /\ UNCHANGED nonTuiVars

\* app.rs lines 144-151, key Up
previous_match ==
    /\ ~should_quit
    /\ ~show_engine_menu
    /\ match_list_state' =
         IF matches = <<>> THEN match_list_state
         ELSE IF match_list_state = -1 THEN 0
         ELSE IF match_list_state = 0 THEN Len(matches) - 1
         ELSE match_list_state - 1
    /\ UNCHANGED <<stdinLines, rx_line, rx_match, raw_input_buffer, log_lines, matches,
                   current_engine, show_engine_menu, engine_list_state, replays,
                   should_quit>>
    /\ UNCHANGED nonTuiVars

\* mod.rs lines 108 and 119, keys 'e', and 'q' or Esc in the menu
toggle_engine_menu ==
    /\ ~should_quit
    /\ show_engine_menu' = ~show_engine_menu
    /\ UNCHANGED <<stdinLines, rx_line, rx_match, raw_input_buffer, log_lines, matches,
                   match_list_state, current_engine, engine_list_state, replays,
                   should_quit>>
    /\ UNCHANGED nonTuiVars

\* mod.rs lines 150-160 and app.rs lines 80-86: keys Down and Up in the menu
next_engine ==
    /\ ~should_quit
    /\ show_engine_menu
    /\ \E down \in BOOLEAN :
         engine_list_state' =
           IF down THEN (IF engine_list_state >= 2 THEN 0 ELSE engine_list_state + 1)
           ELSE (IF engine_list_state = 0 THEN 2 ELSE engine_list_state - 1)
    /\ UNCHANGED <<stdinLines, rx_line, rx_match, raw_input_buffer, log_lines, matches,
                   match_list_state, current_engine, show_engine_menu, replays,
                   should_quit>>
    /\ UNCHANGED nonTuiVars

\* mod.rs lines 121-149, key Enter in the menu: the engine is swapped, the
\* buffers are cleared and a task is spawned to send the history again
SwapEngine ==
    /\ ~should_quit
    /\ show_engine_menu
    /\ Swaps < MaxSwaps
    /\ current_engine' = EngineTypes[engine_list_state + 1]
    /\ replays' = Append(replays, raw_input_buffer)
    /\ raw_input_buffer' = <<>>
    /\ log_lines' = <<>>
    /\ matches' = <<>>
    /\ show_engine_menu' = FALSE
    /\ UNCHANGED <<stdinLines, rx_line, rx_match, match_list_state, engine_list_state,
                   should_quit>>
    /\ UNCHANGED nonTuiVars

\* mod.rs line 105, key 'q' or Esc outside the menu
Quit ==
    /\ ~should_quit
    /\ ~show_engine_menu
    /\ should_quit' = TRUE
    /\ UNCHANGED <<stdinLines, rx_line, rx_match, raw_input_buffer, log_lines, matches,
                   match_list_state, current_engine, show_engine_menu,
                   engine_list_state, replays>>
    /\ UNCHANGED nonTuiVars

NextTui ==
    \/ StdinSend
    \/ \E t \in 1..Len(replays) : ReplaySend(t)
    \/ ProcessLine
    \/ RecvMatch
    \/ approve_current
    \/ ignore_current
    \/ next_match
    \/ previous_match
    \/ toggle_engine_menu
    \/ next_engine
    \/ SwapEngine
    \/ Quit

SpecTui == InitTui /\ [][NextTui]_vars

(***************************************************************************)
(* RegexEngine::sanitize applied to a text and then to its own output.     *)
(* The texts have no escape sequences.                                     *)
(***************************************************************************)
TwiceAlphabet == {"a", "1", "m", Wide}

TwiceContents == SeqsUpTo(TwiceAlphabet, MaxTwiceLen)

InitTwice ==
    /\ IdleRem
    /\ IdleSan
    /\ IdleScan
    /\ IdleVault
    /\ IdleCompile
    /\ IdleLine
    /\ IdleGov
    /\ IdleTui /\ IdleCache /\ IdleBase
    /\ twiceInput \in TwiceContents
    /\ twiceFirst = <<>>
    /\ twiceSecond = <<>>
    /\ twicePc = "first"

\* regex_engine.rs lines 179-227 on S
SanitizeFirst ==
    /\ twicePc = "first"
    /\ \E flattened \in HashOrders(find_matches(twiceInput, AbsentChan).kept) :
         twiceFirst' = RegexSanitize(twiceInput, flattened, AbsentChan).run.out
    /\ twicePc' = "second"
    /\ UNCHANGED <<twiceInput, twiceSecond>>
    /\ UNCHANGED nonTwiceVars

\* regex_engine.rs lines 179-227 on sanitize(S)
SanitizeSecond ==
    /\ twicePc = "second"
    /\ \E flattened \in HashOrders(find_matches(twiceFirst, AbsentChan).kept) :
         twiceSecond' = RegexSanitize(twiceFirst, flattened, AbsentChan).run.out
    /\ twicePc' = "done"
    /\ UNCHANGED <<twiceInput, twiceFirst>>
    /\ UNCHANGED nonTwiceVars

NextTwice == SanitizeFirst \/ SanitizeSecond

SpecTwice == InitTwice /\ [][NextTwice]_vars

(***************************************************************************)
(* get_or_compile_rules, one step per lock operation, per look-up and per  *)
(* compilation, for callers that run concurrently.  An Arc is the number   *)
(* of its allocation.                                                      *)
(***************************************************************************)
MaxCacheCalls == 3

\* A rule that compiles or not.
CacheRule(name, builds) ==
    [name |-> name, pattern_type |-> "regex",
     pattern |-> [some |-> TRUE, len |-> MAX_PATTERN_LENGTH, builds |-> builds]]

\* The configs the callers come with: two that compile, one that does not.
CacheConfigs ==
    { <<CacheRule("r1", TRUE)>>, <<CacheRule("r2", TRUE)>>, <<CacheRule("r3", FALSE)>> }

\* lines 57-67: the hash of the rules sorted by name; a list of one rule is
\* sorted, and the key stands for the list it hashes.
hash_config(rules) == rules

\* cache.get(&cache_key)
CacheGet(cache, key) ==
    IF \E e \in cache : e.key = key
    THEN (CHOOSE e \in cache : e.key = key).arc
    ELSE 0

\* HashMap::insert: the entry of the key is replaced
CacheInsert(cache, key, arc) ==
    {e \in cache : e.key # key} \cup {[key |-> key, arc |-> arc]}

PcAfterLookupAlwaysMiss(found) == "miss"
\* lines 150-156: a hit returns from inside the block of the read guard
PcAfterLookup(found) == IF found THEN "hit" ELSE "miss"

InitCache ==
    /\ IdleRem
    /\ IdleSan
    /\ IdleScan
    /\ IdleVault
    /\ IdleCompile
    /\ IdleLine
    /\ IdleGov
    /\ IdleTui
    /\ IdleTwice
    /\ IdleBase
    /\ COMPILED_RULES_CACHE = {}
    /\ cacheReaders = {}
    /\ cacheWriter = 0
    /\ callPc = [c \in Callers |-> "idle"]
    /\ callConfig = [c \in Callers |-> <<>>]
    /\ callFound = [c \in Callers |-> FALSE]
    /\ callCompiled = [c \in Callers |-> 0]
    /\ callRet = [c \in Callers |-> 0]
    /\ arcs = 0
    /\ callsStarted = 0

\* lines 146-147: a thread calls get_or_compile_rules with a config
GetOrCompileCall(c) ==
    /\ callPc[c] = "idle"
    /\ callsStarted < MaxCacheCalls
    /\ \E config \in CacheConfigs : callConfig' = [callConfig EXCEPT ![c] = config]
    /\ callPc' = [callPc EXCEPT ![c] = "read_lock"]
    /\ callFound' = [callFound EXCEPT ![c] = FALSE]
    /\ callCompiled' = [callCompiled EXCEPT ![c] = 0]
    /\ callRet' = [callRet EXCEPT ![c] = 0]
    /\ callsStarted' = callsStarted + 1
    /\ UNCHANGED <<COMPILED_RULES_CACHE, cacheReaders, cacheWriter, arcs>>
    /\ UNCHANGED nonCacheVars

\* line 151: COMPILED_RULES_CACHE.read() returns when no writer holds the lock
AcquireRead(c) ==
    /\ callPc[c] = "read_lock"
    /\ cacheWriter = 0
    /\ cacheReaders' = cacheReaders \cup {c}
    /\ callPc' = [callPc EXCEPT ![c] = "lookup"]
    /\ UNCHANGED <<COMPILED_RULES_CACHE, cacheWriter, callConfig, callFound,
                   callCompiled, callRet, arcs, callsStarted>>
    /\ UNCHANGED nonCacheVars

\* lines 152-154: cache.get(&cache_key) and, on a hit, Arc::clone(rules)
Lookup(c) ==
    /\ callPc[c] = "lookup"
    /\ LET arc == CacheGet(COMPILED_RULES_CACHE, hash_config(callConfig[c]))
           found == arc # 0
       IN /\ callFound' = [callFound EXCEPT ![c] = found]
          /\ callRet' = [callRet EXCEPT ![c] = arc]
          /\ callPc' = [callPc EXCEPT ![c] = PcAfterLookup(found)]
    /\ UNCHANGED <<COMPILED_RULES_CACHE, cacheReaders, cacheWriter, callConfig,
                   callCompiled, arcs, callsStarted>>
    /\ UNCHANGED nonCacheVars

\* lines 154-156: the read guard is dropped, by the return of a hit or at the
\* end of the block
ReleaseRead(c) ==
    /\ callPc[c] \in {"hit", "miss"}
    /\ cacheReaders' = cacheReaders \ {c}
    /\ callPc' = [callPc EXCEPT ![c] = IF @ = "hit" THEN "idle" ELSE "compile"]
    /\ UNCHANGED <<COMPILED_RULES_CACHE, cacheWriter, callConfig, callFound,
                   callCompiled, callRet, arcs, callsStarted>>
    /\ UNCHANGED nonCacheVars

\* lines 160-161: compile_rules returns; its error is the call's error
CompileForCache(c) ==
    /\ callPc[c] = "compile"
    /\ IF compile_rules(callConfig[c]).ok
       THEN /\ arcs' = arcs + 1
            /\ callCompiled' = [callCompiled EXCEPT ![c] = arcs + 1]
            /\ callPc' = [callPc EXCEPT ![c] = "write_lock"]
            /\ UNCHANGED callRet
       ELSE /\ callRet' = [callRet EXCEPT ![c] = -1]
            /\ callPc' = [callPc EXCEPT ![c] = "idle"]
            /\ UNCHANGED <<arcs, callCompiled>>
    /\ UNCHANGED <<COMPILED_RULES_CACHE, cacheReaders, cacheWriter, callConfig,
                   callFound, callsStarted>>
    /\ UNCHANGED nonCacheVars

\* line 164: COMPILED_RULES_CACHE.write() returns when nobody holds the lock
AcquireWrite(c) ==
    /\ callPc[c] = "write_lock"
    /\ cacheWriter = 0
    /\ cacheReaders = {}
    /\ cacheWriter' = c
    /\ callPc' = [callPc EXCEPT ![c] = "insert"]
    /\ UNCHANGED <<COMPILED_RULES_CACHE, cacheReaders, callConfig, callFound,
                   callCompiled, callRet, arcs, callsStarted>>
    /\ UNCHANGED nonCacheVars

\* lines 164-167: insert(cache_key, Arc::clone(&compiled_arc)); the write
\* guard is dropped at the end of the statement and the Arc is returned
InsertCompiled(c) ==
    /\ callPc[c] = "insert"
    /\ COMPILED_RULES_CACHE' =
         CacheInsert(COMPILED_RULES_CACHE, hash_config(callConfig[c]), callCompiled[c])
    /\ cacheWriter' = 0
    /\ callRet' = [callRet EXCEPT ![c] = callCompiled[c]]
    /\ callPc' = [callPc EXCEPT ![c] = "idle"]
    /\ UNCHANGED <<cacheReaders, callConfig, callFound, callCompiled, arcs,
                   callsStarted>>
    /\ UNCHANGED nonCacheVars

NextCache ==
    \/ \E c \in Callers : GetOrCompileCall(c)
    \/ \E c \in Callers : AcquireRead(c)
    \/ \E c \in Callers : Lookup(c)
    \/ \E c \in Callers : ReleaseRead(c)
    \/ \E c \in Callers : CompileForCache(c)
    \/ \E c \in Callers : AcquireWrite(c)
    \/ \E c \in Callers : InsertCompiled(c)

SpecCache == InitCache /\ [][NextCache]_vars

(***************************************************************************)
(* scan_token_against_context as EntropyEngine::scan calls it for the      *)
(* window at i.  A chunk of the context is the range of its bytes.         *)
(***************************************************************************)
MaxCtxLen == 6
MaxChunk == 3
MaxSamples == 128

\* line 102
StepOf(chunk_size, token_len) == IF chunk_size > 0 THEN chunk_size ELSE token_len

\* lines 103-112: context.chunks(step) from byte `from` on; a chunk of at
\* least token_len / 2 bytes becomes a sample until there are 128
RECURSIVE SampleChunks(_, _, _, _, _)
SampleChunks(len, from, step, token_len, samples) ==
    IF from >= len \/ Len(samples) >= MaxSamples THEN samples
    ELSE LET chunk == [from |-> from, to |-> Min(from + step, len)]
         IN SampleChunks(len, from + step, step, token_len,
                         IF chunk.to - chunk.from >= token_len \div 2
                         THEN Append(samples, chunk)
                         ELSE samples)

\* lines 90-112: the chunks that make the baseline of a token in a context
BaselineSamples(token_len, len, chunk_size) ==
    IF token_len = 0 \/ len < token_len THEN <<>>
    ELSE SampleChunks(len, 0, StepOf(chunk_size, token_len), token_len, <<>>)

InitBase ==
    /\ IdleRem
    /\ IdleSan
    /\ IdleScan
    /\ IdleVault
    /\ IdleCompile
    /\ IdleLine
    /\ IdleGov
    /\ IdleTui
    /\ IdleTwice
    /\ IdleCache
    /\ baseLen \in 1..MaxCtxLen
    /\ baseWindow \in 1..baseLen
    /\ base_i = 0
    /\ window_chunk_size \in 0..MaxChunk
    /\ context_samples = <<>>
    /\ basePc = "window"

\* engine/mod.rs lines 61-62: the window at i is scored against the text
ScoreWindow ==
    /\ basePc = "window"
    /\ context_samples' = BaselineSamples(baseWindow, baseLen, window_chunk_size)
    /\ basePc' = "scored"
    /\ UNCHANGED <<baseLen, baseWindow, base_i, window_chunk_size>>
    /\ UNCHANGED nonBaseVars

\* engine/mod.rs lines 60 and 68-79: the loop goes on to the next window,
\* half a window further after a hit, one byte further otherwise
AdvanceWindow ==
    /\ basePc = "scored"
    /\ \E hit \in BOOLEAN :
         LET next_i == IF hit THEN base_i + HalfWindow(baseWindow) ELSE base_i + 1
         IN /\ next_i <= baseLen - baseWindow
            /\ base_i' = next_i
    /\ basePc' = "window"
    /\ UNCHANGED <<baseLen, baseWindow, window_chunk_size, context_samples>>
    /\ UNCHANGED nonBaseVars

NextBase == ScoreWindow \/ AdvanceWindow

SpecBase == InitBase /\ [][NextBase]_vars

(***************************************************************************)
(* The rate governor and the gate of the orchestrator.                     *)
(***************************************************************************)
\* How many allow_action calls returned true at a time in [a, a + Window].
GrantsIn(a) ==
    Cardinality({k \in 1..Len(grants) : a <= grants[k] /\ grants[k] <= a + Window})

\* C1: whatever the times of the allow_action calls on the governor, at most
\* max_actions of them return true within any window of length `window`.
C1_AtMostMaxActionsPerWindow ==
    \A a \in 0..MaxTime : GrantsIn(a) <= MaxActions

\* The governor refused a call after it had granted more than max_actions
\* calls in all, so a grant had expired and made room before.
C1_Witness ==
    /\ Len(grants) > MaxActions
    /\ cur.consulted
    /\ ~cur.allowed

\* C2: for a match a provider can handle that verifies as live, the provider's
\* threshold being Critical, the governor is asked and remediate is called if
\* and only if allow_action returned true.
C2_LiveCriticalIffGovernorAllows ==
    (cur.gated /\ cur.live /\ auto_remediation_threshold(cur.p) = Critical)
        => /\ can_handle(cur.p, cur.m)
           /\ cur.consulted
           /\ cur.remediated <=> cur.allowed

\* A live match on a Critical provider that the governor refused.
C2_Witness ==
    /\ cur.gated
    /\ cur.live
    /\ auto_remediation_threshold(cur.p) = Critical
    /\ ~cur.allowed
    /\ ~cur.remediated

\* C3: a fingerprint is published only after remediate succeeded for the
\* match; after a failed or an unsuccessful (aborted) remediate nothing is
\* published.
C3_PublishOnlyAfterSuccess ==
    /\ cur.publishCalled => cur.outcome = "ok_success"
    /\ pc = "publish" => cur.outcome = "ok_success"

\* C4: when the confidence of a match is below the provider's threshold and
\* the orchestrator is not interactive, the gate leaves the governor alone
\* (history unchanged, nothing granted) and remediate is not called.
C4_BelowThresholdLeavesGovernorAlone ==
    [][ ( /\ pc = "verify"
          /\ cur' # cur
          /\ ~interactive
          /\ cur'.conf < auto_remediation_threshold(cur'.p) )
        => ( /\ history' = history
             /\ grants' = grants
             /\ ~cur'.consulted
             /\ ~cur'.remediated
             /\ pc' # "remediate" ) ]_vars

\* A match went through the gate of a non-interactive orchestrator below the
\* threshold while the governor had a grant in its history.
C4_Witness ==
    /\ cur.gated
    /\ ~interactive
    /\ cur.conf < auto_remediation_threshold(cur.p)
    /\ ~cur.consulted
    /\ Len(history) > 0

WithoutChannel ==
    IF engine = "regex"
    THEN {RegexSanitize(input, flattened, AbsentChan).run :
            flattened \in HashOrders(FoundFrom(strip(input), 1))}
    ELSE {EntropySanitize(input, confidence_threshold, AbsentChan).run}

\* C6: whatever the state of the remediation channel (absent, with room,
\* full, closed), a finished sanitize has returned the output and summary it
\* returns without a channel; the channel took the matches it had room for
\* and the others were not sent.
C6_ChannelNeverChangesResult ==
    /\ sanRun.done =>
         /\ \E ref \in WithoutChannel :
              ref.out = sanRun.out /\ ref.summary = sanRun.summary
         /\ sanRun.sentNow
              = SubSeq(sanRun.found, 1, Min(sanRun.room, Len(sanRun.found)))
         /\ Len(remediation_tx.queue) <= ChanCap

\* sanitize found more matches than the attached channel could take.
C6_Witness ==
    /\ sanRun.done
    /\ remediation_tx.present
    /\ Len(sanRun.sentNow) < Len(sanRun.found)
    /\ sanRun.out # input

\* C7: the byte ranges of the input that sanitize replaces lie in order and
\* do not overlap: each begins at or after the end of the one before, and the
\* end of the replaced text (last_end) never moves back.
C7_ReplacedRangesDisjointAscending ==
    sanRun.done =>
        /\ \A k \in 1..Len(sanRun.spans) :
             /\ 0 <= sanRun.spans[k].from
             /\ sanRun.spans[k].from <= sanRun.spans[k].to
             /\ sanRun.spans[k].to <= ByteLen(input)
        /\ \A k \in 1..(Len(sanRun.spans) - 1) :
             /\ sanRun.spans[k].to <= sanRun.spans[k + 1].from
             /\ sanRun.spans[k].to <= sanRun.spans[k + 1].to

\* Two ranges were replaced and a match was dropped.
C7_Witness ==
    /\ sanRun.done
    /\ Len(sanRun.spans) >= 2
    /\ \E k \in 1..Len(sanRun.applied) : ~sanRun.applied[k]

\* The matches are in ascending order of start.
StartAscending ==
    \A k \in 1..(Len(sanRun.sorted) - 1) :
        sanRun.sorted[k].start <= sanRun.sorted[k + 1].start

\* C8 as stated: matches are applied in ascending order of start and a later
\* match that overlaps an applied match is dropped.
C8_OverlappingLaterMatchDropped ==
    sanRun.done =>
        /\ StartAscending
        /\ \A i, j \in 1..Len(sanRun.sorted) :
             ( /\ i < j
               /\ sanRun.applied[i]
               /\ sanRun.sorted[j].start < sanRun.sorted[i].end )
             => ~sanRun.applied[j]

\* The end of a match in the original input.
OriginalEnd(m) == map_index(StrippedIndexMapper(input), m.end)

\* The furthest original end among the matches before the k-th; 0 when none.
RECURSIVE EndReachedBefore(_)
EndReachedBefore(k) ==
    IF k <= 1 THEN 0
    ELSE Max(EndReachedBefore(k - 1), OriginalEnd(sanRun.sorted[k - 1]))

\* C8 amended: matches are applied in ascending order of start, and a match
\* is dropped exactly when its end in the original input does not lie beyond
\* the end reached by the matches before it; a later match that overlaps an
\* applied match and ends beyond it is applied.
C8_DroppedExactlyWhenCovered ==
    sanRun.done =>
        /\ StartAscending
        /\ \A k \in 1..Len(sanRun.sorted) :
             sanRun.applied[k] <=> OriginalEnd(sanRun.sorted[k]) > EndReachedBefore(k)

\* A later match that overlaps an applied match was applied all the same.
C8_Witness ==
    /\ sanRun.done
    /\ \E i, j \in 1..Len(sanRun.sorted) :
         /\ i < j
         /\ sanRun.applied[i]
         /\ sanRun.applied[j]
         /\ sanRun.sorted[j].start < sanRun.sorted[i].end

\* C9: the regex engine's sanitize leaves the escape sequences of the input
\* as they are, in their order, and replaces visible characters only.
C9_EscapesPreserved ==
    (sanRun.done /\ engine = "regex") =>
        EscapesOf(sanRun.out) = EscapesOf(input)

\* C10: for each engine, analyze_for_stats returns the per-rule occurrence
\* counts of the summary that sanitize returns on the same input.
C10_AnalyzeCountsEqualSanitizeCounts ==
    (sanRun.done /\ anaRun.done) => anaRun.summary = sanRun.summary


(***************************************************************************)
(* The index mapper and the matches of the engines.                        *)
(***************************************************************************)
\* C11: for an input without ANSI escapes the index mapper maps every byte
\* offset of the input to itself (stated here for the offsets that lie on
\* character boundaries, where matches start and end).
C11_MapperIdentityWithoutEscapes ==
    (sanRun.done /\ engine = "regex" /\ \A k \in 1..Len(input) : input[k] # Esc)
        => \A k \in 1..(Len(input) + 1) :
             map_index(StrippedIndexMapper(input), ByteOff(input, k)) = ByteOff(input, k)


\* The matches a finished call has built, kept or sent.
EmittedBy(run) ==
    {run.found[k] : k \in 1..Len(run.found)}
        \cup {run.sorted[k] : k \in 1..Len(run.sorted)}
        \cup {run.sentNow[k] : k \in 1..Len(run.sentNow)}

\* m lies within the stripped input and names the text it covers.
WithinStripped(m) ==
    LET st == strip(input) IN
    /\ 0 <= m.start
    /\ m.start <= m.end
    /\ m.end <= ByteLen(st)
    /\ m.original_string = CharsOf(SliceBytes(st, m.start, m.end))

\* C12: every match emitted for an input S has 0 <= start <= end <=
\* |strip_ansi(S)|, and its original_string is strip_ansi(S)[start..end].
C12_MatchesWithinStrippedInput ==
    \A m \in EmittedBy(sanRun) \cup EmittedBy(anaRun) : WithinStripped(m)

\* An input with a two-byte character gave a match that starts after the
\* beginning and ends before the end of the stripped input.
C12_Witness ==
    /\ sanRun.done
    /\ \E k \in 1..Len(input) : input[k] = Wide
    /\ \E m \in EmittedBy(sanRun) :
         m.start > 0 /\ m.end < ByteLen(strip(input))


\* C13: for every text and every positive window_size the scan ends: each
\* turn of its loop moves the window position forward, hit or no hit.
C13_WindowAlwaysAdvances ==
    [][(scanPc = "loop" /\ scanPc' = "loop") => scan_i' > scan_i]_vars


C15_PublishOfKnownHashChangesNothing ==
    [][\A p \in Publishers :
         ( /\ pubPc[p] # "idle"
           /\ pubPc'[p] = "idle"
           /\ pubDone'[p] = pubDone[p] + 1
           /\ pubSeen'[p] = s3Object
           /\ HasHash(s3Object, pubFp[p]) )
         => /\ s3Object' = s3Object
            /\ CountHash(s3Object', pubFp[p]) = 1]_vars

\* Both publishers are back from their one publish and no request failed.
OnePublishEach ==
    /\ \A p \in Publishers : pubPc[p] = "idle" /\ pubDone[p] = 1
    /\ ~anyFailure

\* C16: when two publishes of different hashes, both new to the store,
\* interleave so that each has read the list before the other writes, the
\* store ends up with only one of the two fingerprints.
C16_InterleavedPublishesLoseAnUpdate ==
    ( /\ OnePublishEach
      /\ bothRead
      /\ pubFp[1] # pubFp[2]
      /\ ~HasHash(store0, pubFp[1])
      /\ ~HasHash(store0, pubFp[2]) )
    => (HasHash(s3Object, pubFp[1]) # HasHash(s3Object, pubFp[2]))

\* Two interleaved publishes of different new hashes have returned.
C16_Witness ==
    /\ OnePublishEach
    /\ bothRead
    /\ pubFp[1] # pubFp[2]
    /\ store0 = <<>>
    /\ Len(s3Object) = 1


\* C27: a publish never removes a fingerprint: every hash that is in the
\* stored object before a step of a publish is in it after the step, also
\* when the publish's read of the object failed.
C27_PublishKeepsEveryFingerprint ==
    [][\A h \in Hashes : HasHash(s3Object, h) => HasHash(s3Object', h)]_vars

(***************************************************************************)
(* The rule compiler.                                                      *)
(***************************************************************************)
\* C17: for rules with unique names, compile_rules succeeds exactly when
\* every rule compiles on its own, and on success the compiled set has one
\* entry per input rule, with the same names.
C17_CompileSucceedsIffEachRuleCompiles ==
    compilePc = "done" =>
        /\ compiled.ok <=>
             \A k \in 1..Len(rules_to_compile) : compile_rules(<<rules_to_compile[k]>>).ok
        /\ compiled.ok =>
             /\ Len(compiled.rules) = Len(rules_to_compile)
             /\ \A k \in 1..Len(rules_to_compile) :
                  compiled.rules[k] = rules_to_compile[k].name


(***************************************************************************)
(* Line-buffered mode.                                                     *)
(***************************************************************************)
\* The lines of the output: the runs of bytes that a newline ends, and the
\* rest when the output does not end with a newline.
RECURSIVE OutputLines(_)
OutputLines(bytes) ==
    IF bytes = <<>> THEN <<>>
    ELSE IF FirstNewline(bytes) = 0 THEN <<bytes>>
    ELSE <<SubSeq(bytes, 1, FirstNewline(bytes) - 1)>>
           \o OutputLines(SubSeq(bytes, FirstNewline(bytes) + 1, Len(bytes)))

\* How many lines have been read and written out.
LinesDone == IF linePc = "sanitize" THEN Len(linesRead) - 1 ELSE Len(linesRead)

C19_BurstOfNPlusOne ==
    \A j \in 1..Len(govCalls) :
        ( /\ govCalls[j].kept = 0
          /\ j + MaxActions <= Len(govCalls)
          /\ govCalls[j + MaxActions].at - govCalls[j].at <= Window )
        => /\ \A k \in j..(j + MaxActions - 1) : govCalls[k].ok
           /\ ~govCalls[j + MaxActions].ok

\* A new governor was asked MaxActions + 1 times, the last time a full window
\* after the first.
C19_Witness ==
    /\ Len(govCalls) = MaxActions + 1
    /\ govCalls[1].at = 0
    /\ govCalls[MaxActions + 1].at = Window
    /\ ~govCalls[MaxActions + 1].ok


(***************************************************************************)
(* The confidence of a match.                                              *)
(***************************************************************************)
\* C20: a match is given Critical when verification reports it live,
\* otherwise High for a regex rule, otherwise Medium for an entropy rule, and
\* Low in every other case.
C20_ConfidenceByVerificationAndRuleType ==
    cur.gated =>
        cur.conf = IF cur.live THEN Critical
                   ELSE IF cur.m.pattern_type = "regex" THEN High
                   ELSE IF cur.m.pattern_type = "entropy" THEN Medium
                   ELSE Low


(***************************************************************************)
(* The orchestrator, continued.                                            *)
(***************************************************************************)
\* C21: when verify_live_status fails with an error, the match counts as not
\* verified: it is not given Critical confidence and the operator is not
\* prompted for it.
C21_VerifyErrorIsNotLive ==
    (cur.gated /\ cur.verified = "err")
        => /\ ~cur.live
           /\ cur.conf # Critical
           /\ ~cur.prompted

\* The verification of a match failed on an interactive orchestrator, below
\* the provider's threshold.
C21_Witness ==
    /\ cur.gated
    /\ cur.verified = "err"
    /\ interactive
    /\ cur.conf < auto_remediation_threshold(cur.p)
    /\ ~cur.remediated


(***************************************************************************)
(* The entropy engine.                                                     *)
(***************************************************************************)
\* C22: every match the entropy engine emits, after the surgical extraction,
\* spans at least MinCore bytes.
C22_EntropyMatchesSpanMinCore ==
    (engine = "entropy")
        => \A m \in EmittedBy(sanRun) \cup EmittedBy(anaRun) : m.end - m.start >= MinCore


(***************************************************************************)
(* The TUI.                                                                *)
(***************************************************************************)
\* The moves of a match's status that the paths Pending -> Approved ->
\* Revoked and Pending -> Ignored allow.
StatusMoveAllowed(from, to) ==
    \/ to = from
    \/ from = "Pending" /\ to \in {"Approved", "Ignored"}
    \/ from = "Approved" /\ to = "Revoked"

\* C23: the status of a match only moves along Pending -> Approved -> Revoked
\* or Pending -> Ignored, whatever the operator does.
C23_StatusFollowsItsPaths ==
    [][\A k \in 1..Len(matches) :
         (k <= Len(matches') /\ matches'[k].original_string = matches[k].original_string)
            => StatusMoveAllowed(matches[k].status, matches'[k].status)]_vars

\* The ids of the lines of the log, in the order of the log.
LogIds == [k \in 1..Len(log_lines) |-> log_lines[k].id]

\* C24: after a swap every line of the history is sanitized again by the new
\* engine exactly once, and the log lists the lines in the order of the
\* input, also while new lines keep arriving.
C24_ReplayKeepsInputOrder ==
    /\ \A j, k \in 1..Len(log_lines) : j < k => log_lines[j].id < log_lines[k].id
    /\ \A k \in 1..Len(log_lines) : log_lines[k].by = EngineFor(current_engine)


(***************************************************************************)
(* The regex engine, applied again and in every order.                     *)
(***************************************************************************)
\* What sanitize can return on a text, over the orders in which the match
\* lists of the rules are visited.
SanitizeOutputs(text) ==
    {RegexSanitize(text, flattened, AbsentChan).run.out :
        flattened \in HashOrders(find_matches(text, AbsentChan).kept)}

\* C25: sanitize(sanitize(S)) = sanitize(S); no replacement of the rule set
\* matches a rule.
C25_SanitizeIdempotent ==
    twicePc = "done" => twiceSecond = twiceFirst

\* C26: an orchestrator calls remediate at most max_actions times in any
\* window: every call of remediate, whichever provider it goes to and
\* whichever branch of the gate authorized it, is a grant of the
\* orchestrator's one governor made at the same instant, and no window holds
\* more than max_actions grants.
C26_RemediateCallsPerWindow ==
    /\ [](\A a \in 0..MaxTime :
            Cardinality({k \in 1..Len(grants) : grants[k] \in a..(a + Window)})
                <= MaxActions)
    /\ [][ (pc' = "remediate" /\ pc # "remediate")
             => /\ cur'.remediated
                /\ grants' = Append(grants, now)
                /\ now' = now ]_vars

\* Remediate is called for a live secret by an interactive orchestrator after
\* the governor had already granted max_actions calls that have expired.
C26_Witness ==
    /\ pc = "remediate"
    /\ cur.remediated
    /\ cur.live
    /\ interactive
    /\ Len(grants) > MaxActions

\* C28: for a fixed rule set and input, sanitize returns one output, whatever
\* the order in which the match lists of the rules are visited: the output of
\* a finished call is the only output any order can give.
C28_OutputIndependentOfVisitOrder ==
    (engine = "regex" /\ sanRun.done) => SanitizeOutputs(input) = {sanRun.out}

\* C29: under any interleaving of concurrent get_or_compile_rules calls, a
\* call that finds its key in the cache takes the cached Arc while it holds
\* the read guard and no write guard; the write guard is held only by a call
\* that missed, that has its compiled rules and is about to insert them; and
\* a call that is compiling holds no guard.
C29_ReadLockOnHitWriteLockOnlyToInsert ==
    \A c \in Callers :
      /\ callPc[c] = "hit"
           => /\ c \in cacheReaders
              /\ cacheWriter # c
              /\ callRet[c] # 0
              /\ callRet[c] = CacheGet(COMPILED_RULES_CACHE, hash_config(callConfig[c]))
      /\ cacheWriter = c
           => /\ callPc[c] = "insert"
              /\ ~callFound[c]
              /\ callCompiled[c] # 0
              /\ c \notin cacheReaders
      /\ callPc[c] = "compile" => (cacheWriter # c /\ c \notin cacheReaders)

\* Both callers hold the read guard at once and have found the same Arc,
\* which an earlier call compiled and inserted.
C29_Witness ==
    \E c \in Callers : \E d \in Callers \ {c} :
      /\ callPc[c] = "hit"
      /\ callPc[d] = "hit"
      /\ callRet[c] = callRet[d]
      /\ {c, d} \subseteq cacheReaders

\* C30: the baseline sample set used to score a candidate window contains no
\* chunk that overlaps the window [i, i + window_size).
C30_BaselineLeavesTheWindowOut ==
    basePc = "scored"
      => \A k \in 1..Len(context_samples) :
           ~ ( /\ context_samples[k].from < base_i + baseWindow
               /\ base_i < context_samples[k].to )

====
